---- MODULE Spec2Model ----
(***************************************************************************)
(* Model of the local credential and encrypted-profile store of the        *)
(* new-tab homepage: UserProfileManager and CryptoUtils                    *)
(* (src/unnamed/part_003).                                                 *)
(*                                                                         *)
(* localStorage, sessionStorage and the cookie jar are functions from key  *)
(* strings to values; an absent key is a key outside the DOMAIN.  A value  *)
(* that may be null is a sequence: <<>> is null, <<v>> is the value v.     *)
(* Encryption is symbolic: an envelope records the password it was made    *)
(* with and the plaintext, and decrypt gives the plaintext back only for   *)
(* that password.  Times are in minutes (the code uses milliseconds).      *)
(* Every public method is one atomic action: calls do not overlap.         *)
(*                                                                         *)
(* deviceKey is the _deviceKey field (the key kept in memory when the      *)
(* cookie could not be written), template the settings object of           *)
(* defaultProfile, and shared tells that currentUser.settings is that very *)
(* object (registerUser copies defaultProfile shallowly).  last, streak and *)
(* authed record the history of calls that the properties speak about.     *)
(*                                                                         *)
(* pc is the position inside a changeStorageMode call that is taken step   *)
(* by step ("idle" outside one) and mig holds its local variables; crypto  *)
(* holds a plaintext, a password and what CryptoUtils made of them: the    *)
(* last section models encrypt and decrypt on code units and bytes.        *)
(***************************************************************************)
EXTENDS Integers, Sequences, FiniteSets, TLC

VARIABLES ls, ss, ck, cookiesEnabled, now,
          currentUser, isLoggedIn, syncEnabled, syncTimer,
          deviceKey, template, shared,
          pc, mig, crypto, lastActivityTime, timers,
          last, streak, authed, calls

vars == <<ls, ss, ck, cookiesEnabled, now,
          currentUser, isLoggedIn, syncEnabled, syncTimer,
          deviceKey, template, shared,
          pc, mig, crypto, lastActivityTime, timers,
          last, streak, authed, calls>>

-----------------------------------------------------------------------------
(* Bounds of the model                                                     *)

MaxTime == 6
TickMinutes == 5
MaxStreak == 7
MaxCalls == 3
MaxSessionCalls == 5
MaxProfileCalls == 4

(* Input domains                                                           *)

Users == {"alice", "bob"}
ShortUser == "ab"
Passwords == {"Password123", "Hunter2hunter"}
ShortPassword == "short"
EmptyPassword == ""
EmailA == <<"a", "@", "b", ".", "c">>
EmailZ == <<"z", "@", "b", ".", "c">>
BadEmail == <<"a", "@", "b">>
Emails == {EmailA}
DeviceKeys == {"dk1", "dk2"}
TempKeys == {"tk1"}
LegacyBlob == "legacy"
Modes == {"browser", "session", "cookie"}

-----------------------------------------------------------------------------
(* Browser storage                                                         *)

EmptyStore == [k \in {} |-> k]

getItem(st, k) == IF k \in DOMAIN st THEN <<st[k]>> ELSE <<>>

setItem(st, k, v) == [x \in (DOMAIN st) \cup {k} |-> IF x = k THEN v ELSE st[x]]

removeItem(st, k) == [x \in (DOMAIN st) \ {k} |-> st[x]]

RECURSIVE removeItems(_, _)
removeItems(st, ks) ==
    IF ks = {} THEN st
    ELSE LET k == CHOOSE x \in ks : TRUE
         IN  removeItems(removeItem(st, k), ks \ {k})

(* Storage key formats                                                     *)

profileKey(u) == "profile_" \o u
attemptsKey(u) == "login_attempts_" \o u
legacyKeys(u) == {"nitrogenProfile_" \o u, "profile_" \o u \o "_backup"}
userDataKeys(u) == {"profile_" \o u, "profile_" \o u \o "_backup",
                    "nitrogenProfile_" \o u, "sync_" \o u}
oldKeys(u) == {"nitrogenProfile_" \o u, "profile_" \o u \o "_backup",
               "sync_" \o u, "user_login"}

-----------------------------------------------------------------------------
(* CryptoUtils                                                             *)

JSONstringify(x) == [json |-> x]

JSONparse(s) == s.json

encrypt(plaintext, password) == [key |-> password, pt |-> plaintext]

(* <<>> stands for the thrown 'Failed to decrypt data' error               *)
decrypt(env, password) == IF env.key = password THEN <<env.pt>> ELSE <<>>

setEncryptedLocalStorage(st, key, data, password) ==
    setItem(st, key, encrypt(JSONstringify(data), password))

(* the catch block turns a failed decrypt into null                        *)
getEncryptedLocalStorage(st, key, password) ==
    LET encrypted == getItem(st, key)
    IN  IF encrypted = <<>> THEN <<>>
        ELSE LET decrypted == decrypt(encrypted[1], password)
             IN  IF decrypted = <<>> THEN <<>>
                 ELSE <<JSONparse(decrypted[1])>>

-----------------------------------------------------------------------------
(* UserProfileManager: helpers                                             *)

LockoutThreshold == 5
LockoutStep == 5

defaultSettings == [autoSync |-> TRUE, syncInterval |-> 300000, storageMode |-> "browser"]

(* lastSync is null (<<>>) or the time of the latest sync; preferences and  *)
(* reminders, which a sync copies from the page, go with it                *)
defaultProfile == [username |-> "", email |-> <<>>, displayName |-> "",
                   settings |-> defaultSettings, lastSync |-> <<>>]

(* A profile read from an imported bundle may lack the settings object     *)
hasSettings(profile) == "settings" \in DOMAIN profile

(* obj.field = value                                                       *)
assign(obj, field, value) ==
    [f \in (DOMAIN obj) \cup {field} |-> IF f = field THEN value ELSE obj[f]]

(* Variant: the dot after the @ is not required                            *)
isValidEmail_noDot(email) ==
    \E i \in 1..Len(email) :
        /\ email[i] = "@"
        /\ i >= 2
        /\ i <= Len(email) - 1
        /\ \A k \in 1..Len(email) : k # i => email[k] \notin {"@", " "}

isValidEmail(email) ==
    \E i \in 1..Len(email) : \E j \in 1..Len(email) :
        /\ email[i] = "@"
        /\ email[j] = "."
        /\ i >= 2
        /\ j >= i + 2
        /\ j <= Len(email) - 1
        /\ \A k \in 1..Len(email) : k # i => email[k] \notin {"@", " "}

getLoginAttempts(st, username) ==
    LET data == getItem(st, attemptsKey(username))
    IN  IF data = <<>> THEN [count |-> 0, lockoutUntil |-> 0]
        ELSE data[1]

(* Variant: the lockout is computed one failure late                       *)
recordFailedAttempt_lateLockout(st, username, t) ==
    LET attempts == getLoginAttempts(st, username)
        count == attempts.count + 1
        until == IF count > LockoutThreshold
                 THEN t + (count - 5) * LockoutStep
                 ELSE attempts.lockoutUntil
    IN  setItem(st, attemptsKey(username), [count |-> count, lockoutUntil |-> until])

(* Variant: the incremented count is not the one written back              *)
recordFailedAttempt_noIncrement(st, username, t) ==
    LET attempts == getLoginAttempts(st, username)
        until == IF attempts.count + 1 >= LockoutThreshold
                 THEN t + (attempts.count + 1 - 4) * LockoutStep
                 ELSE attempts.lockoutUntil
    IN  setItem(st, attemptsKey(username),
                [count |-> attempts.count, lockoutUntil |-> until])

recordFailedAttempt(st, username, t) ==
    LET attempts == getLoginAttempts(st, username)
        count == attempts.count + 1
        until == IF count >= LockoutThreshold
                 THEN t + (count - 4) * LockoutStep
                 ELSE attempts.lockoutUntil
    IN  setItem(st, attemptsKey(username), [count |-> count, lockoutUntil |-> until])

(* Variant: the counter is removed under another key                       *)
clearLoginAttempts_otherKey(st, username) ==
    removeItem(st, "loginAttempts_" \o username)

clearLoginAttempts(st, username) == removeItem(st, attemptsKey(username))

checkUserExists(st, username) ==
    \/ profileKey(username) \in DOMAIN st
    \/ \E k \in legacyKeys(username) : k \in DOMAIN st

(* Variant: the profile is read under the legacy key format                *)
loadUserProfile_legacyKey(st, username, password) ==
    getEncryptedLocalStorage(st, "nitrogenProfile_" \o username, password)

loadUserProfile(st, username, password) ==
    getEncryptedLocalStorage(st, profileKey(username), password)

(* The device key: the cookie when present, else a new random key (draw)   *)
(* written to the cookie, which a browser with cookies disabled drops.     *)
(* mem is the new value of _deviceKey.                                     *)
getDeviceEncryptionKey(jar, enabled, draw, mem) ==
    LET existingKey == getItem(jar, "device_enc_key")
    IN  IF existingKey # <<>> THEN [key |-> existingKey[1], ck |-> jar, mem |-> mem]
        ELSE IF enabled
             THEN [key |-> draw, ck |-> setItem(jar, "device_enc_key", draw), mem |-> mem]
             ELSE [key |-> draw, ck |-> jar, mem |-> <<draw>>]

(* Variant: the password hash is wrapped in place of the password          *)
saveLoginCredentials_wrapsHash(S, enabled, username, password, draw, t) ==
    LET dk == getDeviceEncryptionKey(S.ck, enabled, draw, S.mem)
        ls1 == setItem(S.ls, "user_password_enc", encrypt("hash:" \o password, dk.key))
        ls2 == setItem(ls1, "user_session", [username |-> username, loginTime |-> "Date.now"])
    IN  [ls |-> ls2, ss |-> S.ss, ck |-> dk.ck, mem |-> dk.mem]

(* A store is the three backends and the key in memory: [ls, ss, ck, mem]  *)
saveLoginCredentials(S, enabled, username, password, draw, t) ==
    LET dk == getDeviceEncryptionKey(S.ck, enabled, draw, S.mem)
        ls1 == setItem(S.ls, "user_password_enc", encrypt(password, dk.key))
        ls2 == setItem(ls1, "user_session", [username |-> username, loginTime |-> "Date.now"])
    IN  [ls |-> ls2, ss |-> S.ss, ck |-> dk.ck, mem |-> dk.mem]

saveUserProfile(S, enabled, username, profile, password, draw, t) ==
    LET ls1 == setEncryptedLocalStorage(S.ls, profileKey(username), profile, password)
    IN  saveLoginCredentials([S EXCEPT !.ls = ls1],
                             enabled, username, password, draw, t)

(* Variant: only the profile key is removed                                *)
cleanupUserData_profileOnly(S, username) ==
    [S EXCEPT !.ls = removeItem(S.ls, profileKey(username)),
              !.ck = removeItem(S.ck, profileKey(username))]

cleanupUserData(S, username) ==
    [S EXCEPT !.ls = removeItems(S.ls, userDataKeys(username)),
              !.ck = removeItems(S.ck, userDataKeys(username))]

(* the one-argument cleanupOldStorage, the definition in force             *)
cleanupOldStorage(S, username) ==
    [S EXCEPT !.ls = removeItems(S.ls, oldKeys(username)),
              !.ss = removeItems(S.ss, oldKeys(username)),
              !.ck = removeItems(S.ck, oldKeys(username))]

(* Variant: a profile already stored for the username is not overwritten   *)
completeImport_keepsStored(S, enabled, importData, password, draw, t) ==
    IF profileKey(importData.profile.username) \in DOMAIN S.ls THEN S
    ELSE saveUserProfile(S, enabled, importData.profile.username, importData.profile,
                         password, draw, t)

completeImport(S, enabled, importData, password, draw, t) ==
    saveUserProfile(S, enabled, importData.profile.username, importData.profile,
                    password, draw, t)

(* A password handed to the key derivation is turned into text by the      *)
(* TextEncoder: null becomes the text "null"                               *)
asText(pw) == IF pw = <<>> THEN "null" ELSE pw[1]

(* A new random key: it differs from the key of the stored wrapped password *)
FreshKey(st) ==
    CHOOSE d \in DeviceKeys :
        "user_password_enc" \in DOMAIN st => d # st["user_password_enc"].key

(* getDecryptionPassword: pw is <<>> for null; a wrapped password that the  *)
(* device key does not open is removed                                     *)
getDecryptionPassword(S, enabled, draw) ==
    LET encryptedPassword == getItem(S.ls, "user_password_enc")
    IN  IF encryptedPassword = <<>> THEN [pw |-> <<>>, S |-> S]
        ELSE LET dk == getDeviceEncryptionKey(S.ck, enabled, draw, S.mem)
                 decryptedPassword == decrypt(encryptedPassword[1], dk.key)
             IN  IF decryptedPassword # <<>>
                 THEN [pw |-> decryptedPassword,
                       S |-> [S EXCEPT !.ck = dk.ck, !.mem = dk.mem]]
                 ELSE [pw |-> <<>>,
                       S |-> [S EXCEPT !.ls = removeItem(S.ls, "user_password_enc"),
                                       !.ck = dk.ck, !.mem = dk.mem]]

(* Variant: a failed auto-login is counted as a failed login attempt       *)
attemptAutoLogin_countsFailure(S, enabled, draw, t) ==
    LET sessionData == getItem(S.ls, "user_session")
        g == getDecryptionPassword(S, enabled, draw)
        no(Sx) == [S |-> Sx, ok |-> FALSE, li |-> FALSE, user |-> <<>>]
        counted == [g.S EXCEPT !.ls = recordFailedAttempt(g.S.ls, sessionData[1].username, t)]
    IN  IF sessionData = <<>> THEN no(S)
        ELSE IF g.pw = <<>> \/ g.pw[1] = "" THEN no(counted)
        ELSE IF ~checkUserExists(g.S.ls, sessionData[1].username) THEN no(counted)
        ELSE LET userProfile == loadUserProfile(g.S.ls, sessionData[1].username, g.pw[1])
             IN  IF userProfile # <<>>
                 THEN [S |-> g.S, ok |-> hasSettings(userProfile[1]), li |-> TRUE,
                       user |-> userProfile]
                 ELSE no(counted)

(* attemptAutoLogin: ok is the value returned, li and user the isLoggedIn  *)
(* and currentUser it leaves.  Reading settings.autoSync of a profile      *)
(* without settings throws after the two were assigned, and the catch      *)
(* block makes the call return false.                                      *)
attemptAutoLogin(S, enabled, draw, t) ==
    LET sessionData == getItem(S.ls, "user_session")
        g == getDecryptionPassword(S, enabled, draw)
        no(Sx) == [S |-> Sx, ok |-> FALSE, li |-> FALSE, user |-> <<>>]
    IN  IF sessionData = <<>> THEN no(S)
        ELSE IF g.pw = <<>> \/ g.pw[1] = "" THEN no(g.S)
        ELSE IF ~checkUserExists(g.S.ls, sessionData[1].username) THEN no(g.S)
        ELSE LET userProfile == loadUserProfile(g.S.ls, sessionData[1].username, g.pw[1])
             IN  IF userProfile # <<>>
                 THEN [S |-> g.S, ok |-> hasSettings(userProfile[1]), li |-> TRUE,
                       user |-> userProfile]
                 ELSE no(g.S)

(* syncUserData for the profile cu of a logged-in controller; the data     *)
(* collected from the page is left out                                     *)
(* g is what getDecryptionPassword returned                                *)
saveWithRecovered(g, enabled, cu, t) ==
    saveUserProfile(g.S, enabled, cu.username, cu, asText(g.pw), FreshKey(g.S.ls), t)

(* The in-memory profile as syncUserData leaves it: stamped when the sync  *)
(* ran                                                                     *)
syncedUser(li, se, cu) ==
    IF ~li \/ ~se THEN cu ELSE assign(cu, "lastSync", <<"Date.now">>)

syncUserData(S, enabled, li, se, cu, draw, t) ==
    IF ~li \/ ~se THEN S
    ELSE saveWithRecovered(getDecryptionPassword(S, enabled, draw), enabled,
                           syncedUser(li, se, cu), t)

(* Variant: the serialized profile is stored as it is                      *)
saveToSessionStorage_plaintext(S, username, profileData, password) ==
    [S EXCEPT !.ss = setItem(S.ss, profileKey(username), JSONstringify(profileData))]

saveToSessionStorage(S, username, profileData, password) ==
    [S EXCEPT !.ss = setItem(S.ss, profileKey(username),
                             encrypt(JSONstringify(profileData), password))]

(* The storage backend a mode names                                        *)
backendOf(S, mode) == IF mode = "session" THEN S.ss ELSE S.ls

(* migrateStorage(fromMode, toMode) for the profile cu, from the point     *)
(* where getDecryptionPassword has returned g; ok = FALSE is the error     *)
(* thrown.  The cleanup call reaches the one-argument cleanupOldStorage,   *)
(* which takes fromMode for the username.                                  *)
(* Variant: the copy in local storage is removed before the new one is    *)
(* written                                                                 *)
migrateWrite_deleteFirst(S, username, profileData, password, toMode) ==
    [S EXCEPT !.ls = removeItem(S.ls, profileKey(username))]

(* The switch of migrateStorage for a valid toMode: the write to the new   *)
(* backend                                                                 *)
migrateWrite(S, username, profileData, password, toMode) ==
    IF toMode \in {"browser", "local"}
    THEN [S EXCEPT !.ls = setEncryptedLocalStorage(S.ls, profileKey(username),
                                                   profileData, password)]
    ELSE saveToSessionStorage(S, username, profileData, password)

migrateWithRecovered(g, cu, fromMode, toMode) ==
    LET password == asText(g.pw)
        username == cu.username
        profileData == loadUserProfile(g.S.ls, username, password)
        S1 == migrateWrite(g.S, username, profileData[1], password, toMode)
    IN  IF profileData = <<>> THEN [ok |-> FALSE, S |-> g.S]
        ELSE IF toMode \notin {"browser", "local", "session"}
        THEN [ok |-> FALSE, S |-> g.S]
        ELSE [ok |-> TRUE,
              S |-> IF fromMode # toMode THEN cleanupOldStorage(S1, fromMode) ELSE S1]

migrateStorage(S, enabled, cu, fromMode, toMode, draw) ==
    migrateWithRecovered(getDecryptionPassword(S, enabled, draw), cu, fromMode, toMode)

-----------------------------------------------------------------------------
Store == [ls |-> ls, ss |-> ss, ck |-> ck, mem |-> deviceKey]

(* authed is the username of the latest successful register or login when  *)
(* no logout came after it, else <<>>.                                     *)
(* The last call made: its arguments, its result, and what held before it  *)
(*   nodata   nothing was stored about u                                   *)
(*   correct  p decrypted the profile envelope stored for u                *)
(*   cnt0     the failed-attempt count stored for u                        *)
(*   fresh    (login) the call before was a valid register(u, p, e, ..)    *)
(*            made when nothing was stored about u                         *)
(*   decrypted  (login) the call executed a decrypt                        *)
(*   existed  (register) data of u was stored                              *)
(*   oldpw    (register) the password of the envelope stored for u         *)
(*   forced   (login) the call before was a register(u, .., forceOverwrite)*)
(*            that succeeded over stored data of u; oldpw is then carried  *)
(*   from, mode  (changeStorageMode) the old and the new storage mode      *)
(*   mig      (changeStorageMode) how migrateStorage ended                 *)
(*   toHolds, fromHolds  whether, when migrateStorage returned, the        *)
(*            backend of the new / of the old mode held an envelope of u   *)
(*   pw0, doc0  (changeStorageMode taken step by step) the password and    *)
(*            the document of the envelope of u in local storage before    *)
(*            the call                                                     *)
(*   first    (the same) when the call before was a changeStorageMode of u *)
(*            from a persistent mode to session: its result, its old mode  *)
(*            and its pw0 and doc0                                         *)
NoCall == [op |-> "init", u |-> "", p |-> "", e |-> <<>>, force |-> FALSE,
           res |-> "ok", user |-> <<>>, nodata |-> FALSE, correct |-> FALSE,
           cnt0 |-> 0, fresh |-> FALSE, decrypted |-> FALSE,
           existed |-> FALSE, oldpw |-> <<>>, forced |-> FALSE,
           from |-> "", mode |-> "", mig |-> "none",
           toHolds |-> FALSE, fromHolds |-> FALSE,
           pw0 |-> <<>>, doc0 |-> <<>>, first |-> <<>>, timer0 |-> FALSE]

ValidInputs(u, p, e) == Len(u) >= 3 /\ Len(p) >= 8 /\ e # <<>> /\ isValidEmail(e)

Decrypts(st, u, p) ==
    profileKey(u) \in DOMAIN st /\ decrypt(st[profileKey(u)], p) # <<>>

(* No changeStorageMode call is under way; nothing was handed to           *)
(* CryptoUtils                                                             *)
NoMigration == [u |-> "", from |-> "", to |-> "", password |-> <<>>,
                profileData |-> <<>>, keys0 |-> {}, key0 |-> <<>>,
                pw0 |-> <<>>, doc0 |-> <<>>, first |-> <<>>, dk |-> <<>>]

NoCrypto == [plaintext |-> <<>>, password |-> <<>>, envelope |-> <<>>,
             out |-> <<>>, rng |-> 0, made |-> <<>>, stored |-> <<>>,
             replaced |-> <<>>]

Init ==
    /\ ls = setItem(EmptyStore, "profile_bob_backup", LegacyBlob)
    /\ ss = EmptyStore
    /\ ck = EmptyStore
    /\ cookiesEnabled \in BOOLEAN
    /\ now = 0
    /\ currentUser = <<>>
    /\ isLoggedIn = FALSE
    /\ syncEnabled = FALSE
    /\ syncTimer = FALSE
    /\ deviceKey = <<>>
    /\ template = defaultSettings
    /\ shared = FALSE
    /\ last = NoCall
    /\ streak = [u |-> "", n |-> 0]
    /\ authed = <<>>
    /\ calls = 0
    /\ pc = "idle"
    /\ mig = NoMigration
    /\ crypto = NoCrypto
    /\ lastActivityTime = 0
    /\ timers = 0

(* A browser used by one user, where an older version may have left data   *)
InitSolo ==
    /\ ls \in {EmptyStore, setItem(EmptyStore, "nitrogenProfile_alice", LegacyBlob)}
    /\ ss = EmptyStore
    /\ ck = EmptyStore
    /\ cookiesEnabled = TRUE
    /\ now = 0
    /\ currentUser = <<>>
    /\ isLoggedIn = FALSE
    /\ syncEnabled = FALSE
    /\ syncTimer = FALSE
    /\ deviceKey = <<>>
    /\ template = defaultSettings
    /\ shared = FALSE
    /\ last = NoCall
    /\ streak = [u |-> "", n |-> 0]
    /\ authed = <<>>
    /\ calls = 0
    /\ pc = "idle"
    /\ mig = NoMigration
    /\ crypto = NoCrypto
    /\ lastActivityTime = 0
    /\ timers = 0

Tick ==
    /\ now + TickMinutes <= MaxTime
    /\ now' = now + TickMinutes
    /\ last' = [NoCall EXCEPT !.op = "tick"]
    /\ UNCHANGED <<ls, ss, ck, cookiesEnabled, currentUser, isLoggedIn,
                   syncEnabled, syncTimer, timers, lastActivityTime,
                   deviceKey, template, shared, streak, authed, pc, mig,
                   crypto>>

(* Account bundles offered to importAccount                                 *)
bundleProfile(u) ==
    [defaultProfile EXCEPT !.username = u, !.email = EmailZ, !.displayName = u,
                           !.settings.autoSync = FALSE,
                           !.settings.storageMode = "session"]

Bundles ==
    {[profile |-> <<bundleProfile(u)>>, version |-> "1.0"] : u \in Users}
    \cup {[profile |-> <<>>, version |-> "1.0"],
          [profile |-> <<bundleProfile("alice")>>, version |-> ""],
          [profile |-> <<[bundleProfile("alice") EXCEPT !.email = <<>>]>>, version |-> "1.0"]}

(* The bundle staged in sessionStorage names username u                    *)
PendingFor(u) ==
    /\ "pendingImport_enc" \in DOMAIN ss
    /\ LET b == JSONparse(ss["pendingImport_enc"].pt)
       IN  b.profile # <<>> /\ b.profile[1].username = u

(* Nothing is stored about username u in any backend                       *)
NoDataFor(u) ==
    /\ \A k \in userDataKeys(u) \cup {attemptsKey(u)} :
          k \notin DOMAIN ls /\ k \notin DOMAIN ss /\ k \notin DOMAIN ck
    /\ ~PendingFor(u)

(* registerUser(username, password, email, displayName, forceOverwrite);   *)
(* avatar and the createdAt/updatedAt timestamps are left out.             *)
registerUser(u, p, e, d, force, draw) ==
    LET valid == ValidInputs(u, p, e)
        existingUser == checkUserExists(ls, u)
        testProfile == loadUserProfile(ls, u, p)
        S0 == IF force THEN cleanupUserData(Store, u) ELSE Store
        newProfile == [defaultProfile EXCEPT !.username = u, !.email = e,
                           !.displayName = IF d = "" THEN u ELSE d,
                           !.settings = template]
        S1 == saveUserProfile(S0, cookiesEnabled, u, newProfile, p, draw, now)
        S2 == saveLoginCredentials(S1, cookiesEnabled, u, p, draw, now)
        fail(code) == [S |-> Store, cu |-> currentUser, li |-> isLoggedIn,
                       se |-> syncEnabled, timer |-> syncTimer, res |-> code,
                       user |-> <<>>]
    IN  IF ~valid THEN fail("ValidationError")
        ELSE IF existingUser /\ ~force /\ testProfile # <<>>
             (* 'Username already exists' is thrown inside the try block and  *)
             (* its catch block rethrows USERNAME_CORRUPTED                   *)
             THEN fail("UsernameCorrupted")
        ELSE [S |-> S2, cu |-> <<newProfile>>, li |-> TRUE,
              se |-> newProfile.settings.autoSync,
              timer |-> IF newProfile.settings.autoSync THEN TRUE ELSE syncTimer,
              res |-> "ok", user |-> <<newProfile>>]

(* clearInterval(this.syncTimer) under "if (this.syncTimer)": n intervals  *)
(* are live, timer tells whether the field holds one of them               *)
clearInterval(timer, n) == IF timer THEN n - 1 ELSE n

(* Variant: the interval held by the field is not cleared first            *)
startPeriodicSync_noClear(timer, n) == n + 1

(* startPeriodicSync: the number of live intervals afterwards              *)
startPeriodicSync(timer, n) == clearInterval(timer, n) + 1

(* r is what registerUser returned                                         *)
RegisterReturns(u, p, e, force, r) ==
        /\ ls' = r.S.ls
        /\ ss' = r.S.ss
        /\ ck' = r.S.ck
        /\ currentUser' = r.cu
        /\ isLoggedIn' = r.li
        /\ syncEnabled' = r.se
        /\ syncTimer' = r.timer
        /\ timers' = IF r.res = "ok" /\ r.se
                     THEN startPeriodicSync(syncTimer, timers) ELSE timers
        /\ deviceKey' = r.S.mem
        /\ shared' = IF r.res = "ok" THEN TRUE ELSE shared
        /\ last' = [NoCall EXCEPT !.op = "register", !.u = u, !.p = p, !.e = e,
                       !.force = force, !.res = r.res, !.user = r.user,
                       !.nodata = NoDataFor(u),
                       !.correct = Decrypts(ls, u, p),
                       !.cnt0 = getLoginAttempts(ls, u).count,
                       !.existed = checkUserExists(ls, u),
                       !.oldpw = IF profileKey(u) \in DOMAIN ls
                                 THEN <<ls[profileKey(u)].key>> ELSE <<>>]
        /\ streak' = [u |-> "", n |-> 0]
        /\ authed' = IF r.res = "ok" THEN <<u>> ELSE authed
        /\ UNCHANGED <<cookiesEnabled, now, lastActivityTime, template, pc,
                       mig, crypto>>

Register(u, p, e, d, force, draw) ==
    RegisterReturns(u, p, e, force, registerUser(u, p, e, d, force, draw))

(* The pending-import block at the head of loginUser                       *)
loginImport(u, p, draw) ==
    LET encryptedImport == getItem(ss, "pendingImport_enc")
        tempKey == getItem(ss, "pendingImport_key")
        cleared == [Store EXCEPT
                       !.ss = removeItems(ss, {"pendingImport_enc", "pendingImport_key"})]
    IN  IF encryptedImport = <<>> \/ tempKey = <<>>
        THEN [S |-> Store, decrypted |-> FALSE]
        ELSE LET decryptedData == decrypt(encryptedImport[1], tempKey[1])
             IN  IF decryptedData = <<>>
                 THEN [S |-> cleared, decrypted |-> TRUE]
                 ELSE LET importData == JSONparse(decryptedData[1])
                      IN  IF importData.profile # <<>> /\ importData.profile[1].username = u
                          THEN LET S1 == completeImport(Store, cookiesEnabled,
                                             [profile |-> importData.profile[1]],
                                             p, draw, now)
                               IN  [S |-> [S1 EXCEPT !.ss = removeItems(S1.ss,
                                               {"pendingImport_enc", "pendingImport_key"})],
                                    decrypted |-> TRUE]
                          ELSE [S |-> Store, decrypted |-> TRUE]

(* Variant: a lockout never expires                                        *)
lockedOut_noExpiry(attempts, t) ==
    attempts.count >= LockoutThreshold

(* Variant: the lockout applies only above the threshold                   *)
lockedOut_offByOne(attempts, t) ==
    attempts.count > LockoutThreshold /\ attempts.lockoutUntil - t > 0

(* The lockout check of loginUser: the attempts read from the store        *)
lockedOut(attempts, t) ==
    attempts.count >= LockoutThreshold /\ attempts.lockoutUntil - t > 0

(* loginUser(username, password): rememberMe is only logged by the code    *)
loginUser(u, p, draw) ==
    LET imp == loginImport(u, p, draw)
        S1 == imp.S
        attempts == getLoginAttempts(S1.ls, u)
        ls2 == IF attempts.count >= LockoutThreshold
               THEN clearLoginAttempts(S1.ls, u) ELSE S1.ls
        userExists == checkUserExists(ls2, u)
        userProfile == loadUserProfile(ls2, u, p)
        tried == profileKey(u) \in DOMAIN ls2
        fail(code, lsx, dec) ==
            [S |-> [S1 EXCEPT !.ls = lsx],
             cu |-> currentUser, li |-> isLoggedIn, se |-> syncEnabled,
             timer |-> syncTimer, res |-> code, user |-> <<>>,
             decrypted |-> dec]
    IN  IF lockedOut(attempts, now)
        THEN fail("RateLimited", S1.ls, imp.decrypted)
        ELSE IF u = "" \/ p = ""
        THEN fail("ValidationError", recordFailedAttempt(ls2, u, now), imp.decrypted)
        ELSE IF ~userExists
        THEN fail("UserNotFound", recordFailedAttempt(ls2, u, now), imp.decrypted)
        ELSE IF userProfile = <<>>
        THEN fail("InvalidPassword", recordFailedAttempt(ls2, u, now),
                  imp.decrypted \/ tried)
        ELSE LET S3 == cleanupOldStorage([S1 EXCEPT !.ls = clearLoginAttempts(ls2, u)], u)
                 S4 == saveLoginCredentials(S3, cookiesEnabled, u, p, draw, now)
             IN  IF ~hasSettings(userProfile[1])
                 (* reading settings.autoSync throws after currentUser and    *)
                 (* isLoggedIn were assigned                                  *)
                 THEN [S |-> S4, cu |-> userProfile, li |-> TRUE, se |-> syncEnabled,
                       timer |-> syncTimer, res |-> "TypeError", user |-> <<>>,
                       decrypted |-> TRUE]
                 ELSE
                 [S |-> S4, cu |-> userProfile, li |-> TRUE,
                  se |-> userProfile[1].settings.autoSync,
                  timer |-> IF userProfile[1].settings.autoSync THEN TRUE ELSE syncTimer,
                  res |-> "ok", user |-> userProfile, decrypted |-> TRUE]

(* p is a wrong password for u at the credential check of loginUser: the   *)
(* envelope then stored for u exists and the non-empty p does not open it  *)
WrongPasswordFor(u, p, draw) ==
    LET S1 == loginImport(u, p, draw).S
    IN  /\ p # ""
        /\ profileKey(u) \in DOMAIN S1.ls
        /\ ~Decrypts(S1.ls, u, p)

FreshRegister(u, p) ==
    /\ last.op = "register" /\ last.u = u /\ last.p = p
    /\ last.nodata /\ ValidInputs(last.u, last.p, last.e)

(* The call before was a forceOverwrite register of u that succeeded over  *)
(* stored data of u                                                        *)
ForcedRegister(u) ==
    /\ last.op = "register" /\ last.u = u /\ last.force
    /\ last.res = "ok" /\ last.existed

(* r is what loginUser returned                                            *)
LoginReturns(u, p, draw, r) ==
        /\ ls' = r.S.ls
        /\ ss' = r.S.ss
        /\ ck' = r.S.ck
        /\ currentUser' = r.cu
        /\ isLoggedIn' = r.li
        /\ syncEnabled' = r.se
        /\ syncTimer' = r.timer
        /\ timers' = IF r.res = "ok" /\ r.se
                     THEN startPeriodicSync(syncTimer, timers) ELSE timers
        /\ lastActivityTime' = IF r.res = "ok" THEN now ELSE lastActivityTime
        /\ deviceKey' = r.S.mem
        /\ shared' = IF r.res \in {"ok", "TypeError"} THEN FALSE ELSE shared
        /\ last' = [NoCall EXCEPT !.op = "login", !.u = u, !.p = p,
                       !.e = IF FreshRegister(u, p) THEN last.e ELSE <<>>,
                       !.res = r.res, !.user = r.user, !.nodata = NoDataFor(u),
                       !.correct = Decrypts(ls, u, p),
                       !.cnt0 = getLoginAttempts(ls, u).count,
                       !.fresh = FreshRegister(u, p), !.decrypted = r.decrypted,
                       !.forced = ForcedRegister(u), !.timer0 = syncTimer,
                       !.oldpw = IF ForcedRegister(u) THEN last.oldpw ELSE <<>>]
        /\ streak' = IF ~WrongPasswordFor(u, p, draw) THEN [u |-> "", n |-> 0]
                     ELSE IF streak.u = u /\ streak.n > 0
                          THEN [u |-> u, n |-> IF streak.n < MaxStreak
                                               THEN streak.n + 1 ELSE MaxStreak]
                     ELSE IF attemptsKey(u) \notin DOMAIN ls
                          THEN [u |-> u, n |-> 1]
                     ELSE [u |-> "", n |-> 0]
        /\ authed' = IF r.res = "ok" THEN <<u>> ELSE authed
        /\ UNCHANGED <<cookiesEnabled, now, template, pc, mig, crypto>>

Login(u, p, draw) == LoginReturns(u, p, draw, loginUser(u, p, draw))

(* Variant: the timer is left running                                      *)
stopPeriodicSync_keepsTimer(timer) == timer

(* stopPeriodicSync: the timer, when there is one, is cleared              *)
stopPeriodicSync(timer) == FALSE

(* Variant: logoutUser keeps the current user                              *)
logoutUserFields_keepsUser(cu) == [cu |-> cu, li |-> FALSE, se |-> FALSE]

(* 483-485: currentUser, isLoggedIn and syncEnabled as logoutUser sets     *)
(* them, whatever the current user cu was                                  *)
logoutUserFields(cu) == [cu |-> <<>>, li |-> FALSE, se |-> FALSE]

(* logoutUser(fullLogout)                                                  *)
Logout(fullLogout) ==
    /\ syncTimer' = stopPeriodicSync(syncTimer)
    /\ timers' = clearInterval(syncTimer, timers)
    /\ ls' = IF fullLogout THEN removeItems(ls, {"user_password_enc", "user_session"})
             ELSE removeItem(ls, "user_session")
    /\ ss' = IF fullLogout THEN removeItems(ss, {"pendingImport_enc", "pendingImport_key"})
             ELSE ss
    /\ currentUser' = logoutUserFields(currentUser).cu
    /\ isLoggedIn' = logoutUserFields(currentUser).li
    /\ syncEnabled' = logoutUserFields(currentUser).se
    /\ shared' = FALSE
    /\ last' = [NoCall EXCEPT !.op = "logout", !.force = fullLogout]
    /\ streak' = [u |-> "", n |-> 0]
    /\ authed' = <<>>
    /\ UNCHANGED <<ck, cookiesEnabled, now, lastActivityTime, deviceKey,
                   template, pc, mig, crypto>>

(* Variant: the bundle is staged in local storage                          *)
importAccount_persists(importData, confirmOverwrite, tempKey) ==
    IF importData.profile = <<>> \/ importData.version = ""
    THEN [S |-> Store, res |-> "InvalidImportFormat"]
    ELSE LET profile == importData.profile[1]
         IN  IF profile.username = "" \/ profile.email = <<>>
             THEN [S |-> Store, res |-> "MissingProfileData"]
             ELSE IF checkUserExists(ls, profile.username) /\ ~confirmOverwrite
             THEN [S |-> Store, res |-> "ImportCancelled"]
             ELSE [S |-> [Store EXCEPT
                        !.ls = setItem(ls, "pendingImport_enc",
                                       encrypt(JSONstringify(importData), tempKey)),
                        !.ss = setItem(setItem(ss, "pendingImport_enc",
                                          encrypt(JSONstringify(importData), tempKey)),
                                       "pendingImport_key", tempKey)],
                   res |-> "ok"]

(* importAccount(importData); confirmOverwrite is the user's answer to the *)
(* confirm() dialog, tempKey the random one-time key                       *)
importAccount(importData, confirmOverwrite, tempKey) ==
    IF importData.profile = <<>> \/ importData.version = ""
    THEN [S |-> Store, res |-> "InvalidImportFormat"]
    ELSE LET profile == importData.profile[1]
         IN  IF profile.username = "" \/ profile.email = <<>>
             THEN [S |-> Store, res |-> "MissingProfileData"]
             ELSE IF checkUserExists(ls, profile.username) /\ ~confirmOverwrite
             THEN [S |-> Store, res |-> "ImportCancelled"]
             ELSE [S |-> [Store EXCEPT
                        !.ss = setItem(setItem(ss, "pendingImport_enc",
                                          encrypt(JSONstringify(importData), tempKey)),
                                       "pendingImport_key", tempKey)],
                   res |-> "ok"]

(* r is what importAccount returned                                        *)
ImportAccountReturns(importData, r) ==
        /\ ls' = r.S.ls
        /\ ss' = r.S.ss
        /\ ck' = r.S.ck
        /\ last' = [NoCall EXCEPT !.op = "import", !.res = r.res,
                       !.u = IF importData.profile = <<>> THEN ""
                             ELSE importData.profile[1].username]
        /\ streak' = [u |-> "", n |-> 0]
        /\ UNCHANGED <<cookiesEnabled, now, lastActivityTime, currentUser,
                       isLoggedIn, syncEnabled, syncTimer, timers, deviceKey,
                       template, shared, authed, pc, mig, crypto>>

ImportAccount(importData, confirmOverwrite, tempKey) ==
    ImportAccountReturns(importData, importAccount(importData, confirmOverwrite, tempKey))

(* A new controller over the storage as it is (the page is loaded again):  *)
(* the constructor, then init(), which removes the key of an older format, *)
(* attempts the auto-login and starts the periodic sync when it logged in  *)
(* a profile with autoSync.                                                *)
(* r is what attemptAutoLogin returned on the new controller               *)
StartupReturns(r) ==
    LET marker == getItem(ls, "user_session")
    IN  /\ ls' = r.S.ls
        /\ ss' = r.S.ss
        /\ ck' = r.S.ck
        /\ deviceKey' = r.S.mem
        /\ currentUser' = r.user
        /\ isLoggedIn' = r.li
        /\ syncEnabled' = (r.ok /\ r.user[1].settings.autoSync)
        /\ syncTimer' = (r.ok /\ r.user[1].settings.autoSync)
        /\ timers' = IF r.ok /\ r.user[1].settings.autoSync
                     THEN startPeriodicSync(FALSE, 0) ELSE 0
        /\ lastActivityTime' = now
        /\ template' = defaultSettings
        /\ shared' = FALSE
        /\ last' = [NoCall EXCEPT !.op = "startup",
                       !.res = IF r.ok THEN "true" ELSE "false",
                       !.u = IF marker = <<>> THEN "" ELSE marker[1].username,
                       !.user = r.user]
        /\ streak' = [u |-> "", n |-> 0]
        /\ UNCHANGED <<cookiesEnabled, now, authed, pc, mig, crypto>>

Startup(draw) ==
    StartupReturns(attemptAutoLogin(
        [ls |-> removeItem(ls, "user_password_hash_enc"), ss |-> ss,
         ck |-> ck, mem |-> <<>>],
        cookiesEnabled, draw, now))

(* changeStorageMode(mode); customPath is not used by the code.  The       *)
(* handler is written in its three stages: syncUserData, migrateStorage    *)
(* (m is what it returned), and the save of the profile with the new mode. *)
changeStorageModeSave(m, cu, oldMode, mode) ==
    IF ~m.ok
    THEN [S |-> m.S, cu |-> <<cu>>, res |-> "MigrationFailed", from |-> oldMode,
          mig |-> "failed", toHolds |-> FALSE, fromHolds |-> FALSE]
    ELSE [S |-> saveWithRecovered(
                    getDecryptionPassword(m.S, cookiesEnabled, FreshKey(m.S.ls)),
                    cookiesEnabled, [cu EXCEPT !.settings.storageMode = mode], now),
          cu |-> <<[cu EXCEPT !.settings.storageMode = mode]>>,
          res |-> "ok", from |-> oldMode, mig |-> "ok",
          toHolds |-> profileKey(cu.username) \in DOMAIN backendOf(m.S, mode),
          fromHolds |-> profileKey(cu.username) \in DOMAIN backendOf(m.S, oldMode)]

changeStorageModeMigrate(S1, cu, oldMode, mode) ==
    changeStorageModeSave(
        migrateStorage(S1, cookiesEnabled, cu, oldMode, mode, FreshKey(S1.ls)),
        cu, oldMode, mode)

(* The read of currentUser.settings.storageMode comes before the try       *)
(* block: for a profile without settings the call throws ("raised")        *)
changeStorageMode(mode, draw) ==
    IF ~isLoggedIn
    THEN [S |-> Store, cu |-> currentUser, res |-> "NotLoggedIn", from |-> "",
          mig |-> "none", toHolds |-> FALSE, fromHolds |-> FALSE]
    ELSE IF ~hasSettings(currentUser[1])
    THEN [S |-> Store, cu |-> currentUser, res |-> "raised", from |-> "",
          mig |-> "none", toHolds |-> FALSE, fromHolds |-> FALSE]
    ELSE changeStorageModeMigrate(
             syncUserData(Store, cookiesEnabled, isLoggedIn, syncEnabled,
                          currentUser[1], draw, now),
             syncedUser(isLoggedIn, syncEnabled, currentUser[1]),
             currentUser[1].settings.storageMode, mode)

(* r is what changeStorageMode returned.  A shared settings object shows   *)
(* the new mode in defaultProfile as well, and the old one again after the *)
(* catch block has put it back.                                            *)
ChangeStorageModeEffects(mode, r) ==
    /\ ls' = r.S.ls
    /\ ss' = r.S.ss
    /\ ck' = r.S.ck
    /\ deviceKey' = r.S.mem
    /\ currentUser' = r.cu
    /\ template' = IF r.res \in {"ok", "MigrationFailed"} /\ shared
                   THEN r.cu[1].settings ELSE template
    /\ last' = [NoCall EXCEPT !.op = "changeStorageMode", !.res = r.res,
                   !.u = IF isLoggedIn THEN currentUser[1].username ELSE "",
                   !.from = r.from, !.mode = mode, !.mig = r.mig,
                   !.toHolds = r.toHolds, !.fromHolds = r.fromHolds,
                   !.pw0 = mig.pw0, !.doc0 = mig.doc0, !.first = mig.first]
    /\ streak' = [u |-> "", n |-> 0]
    /\ UNCHANGED <<cookiesEnabled, now, lastActivityTime, isLoggedIn,
                   syncEnabled, syncTimer, timers, shared, authed, crypto>>

ChangeStorageModeReturns(mode, r) ==
    ChangeStorageModeEffects(mode, r) /\ UNCHANGED <<pc, mig>>

ChangeStorageMode(mode, draw) ==
    ChangeStorageModeReturns(mode, changeStorageMode(mode, draw))

(* changeStorageMode taken one storage operation at a time.  pc is         *)
(*   "migrating"  syncUserData has returned, the new mode is set in memory *)
(*                and migrateStorage is entered                            *)
(*   "loaded"     getDecryptionPassword and loadUserProfile have returned  *)
(*   "written"    the write to the new backend has completed               *)
(*   "migrated"   migrateStorage has returned true                         *)
(*   "failed"     migrateStorage has thrown                                *)
(* No other call of the controller runs between the steps.                 *)

(* The passwords of the envelopes stored for u in the three backends       *)
EnvelopeKeys(S, u) ==
    {st[profileKey(u)].key : st \in {b \in {S.ls, S.ss, S.ck} : profileKey(u) \in DOMAIN b}}

(* S1 is the storage as syncUserData left it                               *)
BeginMigration(mode, S1) ==
    /\ ls' = S1.ls
    /\ ss' = S1.ss
    /\ ck' = S1.ck
    /\ deviceKey' = S1.mem
    /\ currentUser' = <<[syncedUser(isLoggedIn, syncEnabled, currentUser[1])
                            EXCEPT !.settings.storageMode = mode]>>
    /\ template' = IF shared THEN [template EXCEPT !.storageMode = mode] ELSE template
    /\ pc' = "migrating"
    /\ mig' = [u |-> currentUser[1].username,
               from |-> currentUser[1].settings.storageMode, to |-> mode,
               password |-> <<>>, profileData |-> <<>>,
               keys0 |-> EnvelopeKeys(S1, currentUser[1].username),
               key0 |-> IF profileKey(currentUser[1].username) \in DOMAIN S1.ls
                        THEN <<S1.ls[profileKey(currentUser[1].username)].key>>
                        ELSE <<>>,
               pw0 |-> IF profileKey(currentUser[1].username) \in DOMAIN ls
                       THEN <<ls[profileKey(currentUser[1].username)].key>> ELSE <<>>,
               doc0 |-> IF profileKey(currentUser[1].username) \in DOMAIN ls
                        THEN <<JSONparse(ls[profileKey(currentUser[1].username)].pt)>>
                        ELSE <<>>,
               dk |-> <<>>,
               first |-> IF /\ last.op = "changeStorageMode" /\ last.mode = "session"
                            /\ last.from \notin {"session", ""}
                            /\ last.u = currentUser[1].username /\ last.pw0 # <<>>
                         THEN <<[res |-> last.res, from |-> last.from,
                                 pw0 |-> last.pw0[1], doc0 |-> last.doc0[1]]>>
                         ELSE <<>>]
    /\ last' = [NoCall EXCEPT !.op = "migrateStorage", !.u = currentUser[1].username,
                   !.from = currentUser[1].settings.storageMode, !.mode = mode]
    /\ streak' = [u |-> "", n |-> 0]
    /\ UNCHANGED <<cookiesEnabled, now, lastActivityTime, isLoggedIn,
                   syncEnabled, syncTimer, timers, shared, authed, crypto>>

BeginChangeStorageMode(mode, draw) ==
    /\ pc = "idle"
    /\ IF ~isLoggedIn \/ ~hasSettings(currentUser[1])
       THEN ChangeStorageMode(mode, draw)
       ELSE BeginMigration(mode, syncUserData(Store, cookiesEnabled, isLoggedIn,
                                             syncEnabled, currentUser[1], draw, now))

(* g is what getDecryptionPassword returned                                *)
MigrateLoadReturns(g) ==
    /\ ls' = g.S.ls
    /\ ck' = g.S.ck
    /\ deviceKey' = g.S.mem
    /\ mig' = [mig EXCEPT !.password = <<asText(g.pw)>>,
                          !.profileData = loadUserProfile(g.S.ls, mig.u, asText(g.pw))]
    /\ pc' = IF loadUserProfile(g.S.ls, mig.u, asText(g.pw)) = <<>>
             THEN "failed" ELSE "loaded"
    /\ UNCHANGED <<ss, cookiesEnabled, now, lastActivityTime, currentUser,
                   isLoggedIn, syncEnabled, syncTimer, timers, template,
                   shared, crypto, last, streak, authed>>

MigrateLoad ==
    /\ pc = "migrating"
    /\ MigrateLoadReturns(getDecryptionPassword(Store, cookiesEnabled, FreshKey(ls)))

(* S1 is the storage after the write to the new backend                    *)
MigrateWriteReturns(S1) ==
    /\ ls' = S1.ls
    /\ ss' = S1.ss
    /\ pc' = "written"
    /\ UNCHANGED <<ck, cookiesEnabled, now, lastActivityTime, currentUser,
                   isLoggedIn, syncEnabled, syncTimer, timers, deviceKey,
                   template, shared, mig, crypto, last, streak, authed>>

MigrateWrite ==
    /\ pc = "loaded"
    /\ IF mig.to \notin {"browser", "local", "session"}
       THEN /\ pc' = "failed"
            /\ UNCHANGED <<ls, ss, ck, cookiesEnabled, now, lastActivityTime,
                           currentUser, isLoggedIn, syncEnabled, syncTimer,
                           timers, deviceKey, template, shared, mig, crypto,
                           last, streak, authed>>
       ELSE MigrateWriteReturns(migrateWrite(Store, mig.u, mig.profileData[1],
                                             mig.password[1], mig.to))

(* S1 is the storage after the cleanup call                                *)
MigrateCleanupReturns(S1) ==
    /\ ls' = S1.ls
    /\ ss' = S1.ss
    /\ ck' = S1.ck
    /\ pc' = "migrated"
    /\ UNCHANGED <<cookiesEnabled, now, lastActivityTime, currentUser,
                   isLoggedIn, syncEnabled, syncTimer, timers, deviceKey,
                   template, shared, mig, crypto, last, streak, authed>>

MigrateCleanup ==
    /\ pc = "written"
    /\ MigrateCleanupReturns(IF mig.from # mig.to
                             THEN cleanupOldStorage(Store, mig.from) ELSE Store)

(* The rest of changeStorageMode: the save with the new mode, or the catch *)
(* block that puts the old mode back                                       *)
EndChangeStorageMode ==
    /\ pc \in {"migrated", "failed"}
    /\ ChangeStorageModeEffects(mig.to,
           changeStorageModeSave([ok |-> pc = "migrated", S |-> Store],
               [currentUser[1] EXCEPT !.settings.storageMode = mig.from],
               mig.from, mig.to))
    /\ pc' = "idle"
    /\ mig' = NoMigration

(* { ...this.currentUser, ...updates }                                     *)
merge(cu, updates) ==
    [f \in (DOMAIN cu) \cup (DOMAIN updates) |->
        IF f \in DOMAIN updates THEN updates[f] ELSE cu[f]]

(* updateProfile from the point where the password is resolved: g.pw is    *)
(* the password supplied or the one getDecryptionPassword returned.  The   *)
(* merge into currentUser has happened by then and stays when the call     *)
(* fails.                                                                  *)
updateProfileSave(cu, g) ==
    IF g.pw = <<>> \/ g.pw[1] = ""
    THEN [S |-> g.S, cu |-> <<cu>>, res |-> "PasswordRequired"]
    ELSE [S |-> saveUserProfile(g.S, cookiesEnabled, cu.username, cu, g.pw[1],
                                FreshKey(g.S.ls), now),
          cu |-> <<cu>>, res |-> "ok"]

(* updateProfile(updates, password): password is <<>> for null; an empty   *)
(* password counts as none                                                 *)
updateProfile(updates, password, draw) ==
    IF ~isLoggedIn
    THEN [S |-> Store, cu |-> currentUser, res |-> "NotLoggedIn"]
    ELSE updateProfileSave(merge(currentUser[1], updates),
             IF password = <<>> \/ password[1] = ""
             THEN getDecryptionPassword(Store, cookiesEnabled, draw)
             ELSE [pw |-> password, S |-> Store])

(* r is what updateProfile returned; last.unwraps tells whether the device *)
(* secret of the session opened the wrapped password before the call       *)
UpdateProfileReturns(updates, password, r) ==
    /\ ls' = r.S.ls
    /\ ss' = r.S.ss
    /\ ck' = r.S.ck
    /\ deviceKey' = r.S.mem
    /\ currentUser' = r.cu
    /\ last' = [NoCall EXCEPT !.op = "updateProfile", !.res = r.res,
                   !.u = IF isLoggedIn THEN currentUser[1].username ELSE "",
                   !.p = IF password = <<>> THEN "" ELSE password[1],
                   !.user = r.cu]
    /\ streak' = [u |-> "", n |-> 0]
    /\ UNCHANGED <<cookiesEnabled, now, lastActivityTime, isLoggedIn,
                   syncEnabled, syncTimer, timers, template, shared, pc, mig,
                   crypto, authed>>

UpdateProfile(updates, password, draw) ==
    UpdateProfileReturns(updates, password, updateProfile(updates, password, draw))

(* Variant: the time of the sync is also written to local storage          *)
syncUserDataSync_writesLastSync(S, li, cu) ==
    IF ~li THEN [S |-> S, cu |-> cu]
    ELSE [S |-> [S EXCEPT !.ls = setItem(S.ls, "lastSync", "Date.now")],
          cu |-> <<assign(cu[1], "lastSync", <<"Date.now">>)>>]

(* syncUserDataSync: the data of the page and the time go into currentUser *)
syncUserDataSync(S, li, cu) ==
    IF ~li THEN [S |-> S, cu |-> cu]
    ELSE [S |-> S, cu |-> <<assign(cu[1], "lastSync", <<"Date.now">>)>>]

SyncUserDataSyncReturns(r) ==
    /\ ls' = r.S.ls
    /\ ss' = r.S.ss
    /\ ck' = r.S.ck
    /\ currentUser' = r.cu
    /\ last' = [NoCall EXCEPT !.op = "syncUserDataSync",
                   !.u = IF isLoggedIn THEN currentUser[1].username ELSE ""]
    /\ streak' = [u |-> "", n |-> 0]
    /\ UNCHANGED <<cookiesEnabled, now, lastActivityTime, isLoggedIn,
                   syncEnabled, syncTimer, timers, deviceKey, template,
                   shared, pc, mig, crypto, authed>>

SyncUserDataSync == SyncUserDataSyncReturns(syncUserDataSync(Store, isLoggedIn, currentUser))

(* The random device key.  None is drawn when the cookie holds one; a new  *)
(* random key differs from every key in use, and stands for any such key.  *)
UsedDeviceKeys ==
    IF "user_password_enc" \in DOMAIN ls THEN {ls["user_password_enc"].key} ELSE {}

Draws == IF "device_enc_key" \in DOMAIN ck
         THEN {ck["device_enc_key"]}
         ELSE {CHOOSE d \in DeviceKeys \ UsedDeviceKeys : TRUE}

ValidRegistrations(US) == {<<u, p, EmailA>> : u \in US, p \in Passwords}

InvalidRegistrations ==
    {<<ShortUser, "Password123", EmailA>>,
     <<"alice", ShortPassword, EmailA>>,
     <<"alice", "Password123", BadEmail>>}

ValidBundles(US) ==
    {b \in Bundles : importAccount(b, TRUE, "tk1").res = "ok" /\ b.profile[1].username \in US}

Step(US) ==
    \/ Tick
    \/ \E i \in ValidRegistrations(US), force \in BOOLEAN, draw \in Draws :
          Register(i[1], i[2], i[3], "", force, draw)
    \/ \E i \in InvalidRegistrations, draw \in Draws :
          Register(i[1], i[2], i[3], "", FALSE, draw)
    \/ \E u \in US, p \in Passwords \cup {EmptyPassword}, draw \in Draws :
          Login(u, p, draw)
    \/ \E fullLogout \in BOOLEAN : Logout(fullLogout)
    \/ \E b \in ValidBundles(US), confirmOverwrite \in BOOLEAN, tempKey \in TempKeys :
          ImportAccount(b, confirmOverwrite, tempKey)
    \/ \E b \in Bundles \ ValidBundles(Users), tempKey \in TempKeys :
          ImportAccount(b, TRUE, tempKey)

(* The page loaded again, and the storage mode changed                     *)
StepSession ==
    \/ \E draw \in Draws : Startup(draw)
    \/ \E mode \in Modes, draw \in Draws : ChangeStorageMode(mode, draw)

(* Two users, a bounded number of calls                                    *)
Next == calls < MaxCalls /\ calls' = calls + 1 /\ (Step(Users) \/ StepSession)

(* One user, any number of calls                                           *)
NextSolo == UNCHANGED calls /\ Step({"alice"})

(* One user with one password, a bounded number of calls, no passing of    *)
(* time                                                                    *)
InitSession ==
    /\ ls = EmptyStore
    /\ ss = EmptyStore
    /\ ck = EmptyStore
    /\ cookiesEnabled \in BOOLEAN
    /\ now = 0
    /\ currentUser = <<>>
    /\ isLoggedIn = FALSE
    /\ syncEnabled = FALSE
    /\ syncTimer = FALSE
    /\ deviceKey = <<>>
    /\ template = defaultSettings
    /\ shared = FALSE
    /\ last = NoCall
    /\ streak = [u |-> "", n |-> 0]
    /\ authed = <<>>
    /\ calls = 0
    /\ pc = "idle"
    /\ mig = NoMigration
    /\ crypto = NoCrypto
    /\ lastActivityTime = 0
    /\ timers = 0

NextSession ==
    /\ calls < MaxSessionCalls
    /\ calls' = calls + 1
    /\ \/ \E draw \in Draws : Register("alice", "Password123", EmailA, "", FALSE, draw)
       \/ \E p \in {"Password123", EmptyPassword}, draw \in Draws : Login("alice", p, draw)
       \/ \E fullLogout \in BOOLEAN : Logout(fullLogout)
       \/ \E b \in ValidBundles({"alice"}), tempKey \in TempKeys :
             ImportAccount(b, TRUE, tempKey)
       \/ StepSession

(* One user; changeStorageMode is taken step by step, and a bundle whose   *)
(* profile has only the fields importAccount asks for is among the inputs  *)
BareBundle == [profile |-> <<[username |-> "alice", email |-> EmailZ]>>,
               version |-> "1.0"]

Updates == {[displayName |-> "Al"]}

NextProfile ==
    \/ /\ pc = "idle"
       /\ calls < MaxProfileCalls
       /\ calls' = calls + 1
       /\ \/ \E draw \in Draws :
                Register("alice", "Password123", EmailA, "", FALSE, draw)
          \/ \E p \in {"Password123", EmptyPassword}, draw \in Draws :
                Login("alice", p, draw)
          \/ \E fullLogout \in BOOLEAN : Logout(fullLogout)
          \/ \E b \in ValidBundles({"alice"}) \cup {BareBundle}, tempKey \in TempKeys :
                ImportAccount(b, TRUE, tempKey)
          \/ \E updates \in Updates, password \in {<<>>, <<"Password123">>},
                draw \in Draws :
                UpdateProfile(updates, password, draw)
          \/ SyncUserDataSync
          \/ \E draw \in Draws : Startup(draw)
          \/ \E mode \in Modes, draw \in Draws : BeginChangeStorageMode(mode, draw)
    \/ /\ UNCHANGED calls
       /\ (MigrateLoad \/ MigrateWrite \/ MigrateCleanup \/ EndChangeStorageMode)

Spec == Init /\ [][Next]_vars

SpecProfile == InitSession /\ [][NextProfile]_vars

SpecSession == InitSession /\ [][NextSession]_vars

SpecSolo == InitSolo /\ [][NextSolo]_vars

-----------------------------------------------------------------------------
(* Properties                                                              *)

Attempts(u) == getLoginAttempts(ls, u)

IsUser(li, cu, u) == li /\ cu # <<>> /\ cu[1].username = u

LoggedInAs(u) == IsUser(isLoggedIn, currentUser, u)

Envelope(st, u) == getItem(st, profileKey(u))

C2_CorruptedLeavesEnvelope ==
    [][ ( /\ last'.op = "register" /\ ~last'.force
          /\ ValidInputs(last'.u, last'.p, last'.e)
          /\ profileKey(last'.u) \in DOMAIN ls
          /\ ~Decrypts(ls, last'.u, last'.p) )
        => ( /\ last'.res = "UsernameCorrupted"
             /\ Envelope(ls', last'.u) = Envelope(ls, last'.u)
             /\ isLoggedIn' = isLoggedIn
             /\ currentUser' = currentUser ) ]_vars

(* C3: register(u, p, ..) without forceOverwrite, when an envelope for u   *)
(* exists that p decrypts, fails with UsernameTaken (not UsernameCorrupted)*)
(* and changes nothing in storage.                                         *)
C3_TakenIsDistinct ==
    [][ ( /\ last'.op = "register" /\ ~last'.force
          /\ ValidInputs(last'.u, last'.p, last'.e)
          /\ Decrypts(ls, last'.u, last'.p) )
        => ( /\ last'.res = "UsernameTaken"
             /\ ls' = ls /\ ss' = ss /\ ck' = ck ) ]_vars

(* C4: a login that returns UserNotFound, InvalidPassword or RateLimited   *)
(* leaves the stored profile envelope of every username as it was.         *)
C4_FailedLoginKeepsEnvelopes ==
    [][ ( last'.op = "login"
          /\ last'.res \in {"UserNotFound", "InvalidPassword", "RateLimited"} )
        => \A u \in Users : /\ Envelope(ls', u) = Envelope(ls, u)
                            /\ Envelope(ss', u) = Envelope(ss, u) ]_vars

(* C5 as stated: the fifth of five consecutive wrong-password logins for   *)
(* an existing username, counted from a cleared counter, returns           *)
(* RateLimited and leaves lockoutUntil at least 5 minutes after the call.  *)
C5_FifthIsRateLimited ==
    (last.op = "login" /\ streak.n = 5)
        => /\ last.res = "RateLimited"
           /\ Attempts(streak.u).lockoutUntil >= now + 5

(* C5 amended: the fifth call returns InvalidPassword and records count 5  *)
(* with lockoutUntil 5 minutes after the call; RateLimited is the result   *)
(* of the next login for that username made before lockoutUntil.           *)
C5_FifthSetsLockout ==
    [][ /\ (last'.op = "login" /\ streak'.n = 5)
            => /\ last'.res = "InvalidPassword"
               /\ getLoginAttempts(ls', streak'.u).count = 5
               /\ getLoginAttempts(ls', streak'.u).lockoutUntil >= now' + 5
        /\ (last'.op = "login" /\ last'.u = streak.u /\ streak.n = 5
              /\ now < Attempts(streak.u).lockoutUntil)
            => last'.res = "RateLimited" ]_vars

C5_Witness ==
    /\ last.op = "login" /\ streak.n = 6 /\ last.res = "RateLimited"
    /\ Attempts(streak.u).count = 5

(* C6: while now < lockoutUntil for u, login(u, correct password) fails    *)
(* with RateLimited, the controller does not become logged in as u and the *)
(* failed-attempt counter of u is unchanged.                               *)
C6_LockoutBeatsCorrectPassword ==
    [][ ( /\ last'.op = "login"
          /\ now < Attempts(last'.u).lockoutUntil
          /\ Decrypts(ls, last'.u, last'.p) )
        => ( /\ last'.res = "RateLimited"
             /\ IsUser(isLoggedIn', currentUser', last'.u) => LoggedInAs(last'.u)
             /\ getItem(ls', attemptsKey(last'.u)) = getItem(ls, attemptsKey(last'.u)) )
      ]_vars

C6_Witness ==
    /\ last.op = "login" /\ last.correct /\ last.res = "RateLimited"
    /\ now < Attempts(last.u).lockoutUntil
    /\ ~LoggedInAs(last.u)

(* C7: a login rejected as RateLimited has executed no decrypt.            *)
C7_NoDecryptBeforeLockoutCheck ==
    (last.op = "login" /\ last.res = "RateLimited") => ~last.decrypted

(* C8: the k-th consecutive failed login for one username, k >= 5, leaves  *)
(* count = k and a lockout of (k - 4) * 5 minutes: 5 minutes at the 5th    *)
(* failure, 10 at the 6th, 15 at the 7th.                                  *)
C8_GrowingLockouts ==
    (last.op = "login" /\ last.res # "ok" /\ streak.n >= 5 /\ streak.n < MaxStreak)
        => /\ Attempts(streak.u).count = streak.n
           /\ Attempts(streak.u).lockoutUntil >= now + (streak.n - 4) * 5

(* C9: after every successful login(u, p) the failed-attempt count of u is *)
(* 0, whatever it was before.                                              *)
C9_SuccessClearsCounter ==
    (last.op = "login" /\ last.res = "ok") => Attempts(last.u).count = 0

C9_Witness ==
    /\ last.op = "login" /\ last.res = "ok" /\ last.cnt0 >= 3
    /\ attemptsKey(last.u) \notin DOMAIN ls

(* C10 as stated: outside lockout, login(u, p) fails with UserNotFound     *)
(* when nothing was ever stored for u and with InvalidPassword when data   *)
(* of u exists that p does not decrypt, and either failure increases the   *)
(* stored count of u by exactly 1.  (p not empty, no import staged for u.) *)
C10_FailureAddsOne ==
    [][ ( /\ last'.op = "login" /\ last'.p # "" /\ ~PendingFor(last'.u)
          /\ ~(now < Attempts(last'.u).lockoutUntil) )
        => /\ ~checkUserExists(ls, last'.u)
                => /\ last'.res = "UserNotFound"
                   /\ getLoginAttempts(ls', last'.u).count = Attempts(last'.u).count + 1
           /\ (checkUserExists(ls, last'.u) /\ ~Decrypts(ls, last'.u, last'.p))
                => /\ last'.res = "InvalidPassword"
                   /\ getLoginAttempts(ls', last'.u).count = Attempts(last'.u).count + 1
      ]_vars

(* The count in effect at the credential check: a counter that belongs to  *)
(* an expired lockout is cleared first                                     *)
EffectiveCount(u) ==
    IF Attempts(u).count >= LockoutThreshold THEN 0 ELSE Attempts(u).count

(* C10 amended: as C10, with the count left at 1 more than the count in    *)
(* effect: the stored count, or 0 when the stored counter belongs to a     *)
(* lockout that has expired.                                               *)
C10_FailureAddsOneToEffective ==
    [][ ( /\ last'.op = "login" /\ last'.p # "" /\ ~PendingFor(last'.u)
          /\ ~(now < Attempts(last'.u).lockoutUntil) )
        => /\ ~checkUserExists(ls, last'.u)
                => /\ last'.res = "UserNotFound"
                   /\ getLoginAttempts(ls', last'.u).count = EffectiveCount(last'.u) + 1
           /\ (checkUserExists(ls, last'.u) /\ ~Decrypts(ls, last'.u, last'.p))
                => /\ last'.res = "InvalidPassword"
                   /\ getLoginAttempts(ls', last'.u).count = EffectiveCount(last'.u) + 1
      ]_vars

C10_Witness ==
    /\ last.op = "login" /\ last.res \in {"UserNotFound", "InvalidPassword"}
    /\ last.cnt0 = 5 /\ Attempts(last.u).count = 1

(* C11: a counter that is absent reads as count 0; the first login made    *)
(* for u when lockoutUntil has passed clears the counter before the        *)
(* credential check, so that a correct password logs in and a wrong        *)
(* password leaves count = 1.  (p not empty, no import staged for u.)      *)
C11_CounterLifecycle ==
    [][ /\ \A u \in Users : attemptsKey(u) \notin DOMAIN ls => Attempts(u).count = 0
        /\ ( /\ last'.op = "login" /\ last'.p # "" /\ ~PendingFor(last'.u)
             /\ Attempts(last'.u).count >= LockoutThreshold
             /\ now >= Attempts(last'.u).lockoutUntil )
           => /\ Decrypts(ls, last'.u, last'.p)
                   => /\ last'.res = "ok"
                      /\ IsUser(isLoggedIn', currentUser', last'.u)
              /\ ~Decrypts(ls, last'.u, last'.p)
                   => /\ last'.res \in {"UserNotFound", "InvalidPassword"}
                      /\ getLoginAttempts(ls', last'.u).count = 1 ]_vars

C11_Witness ==
    /\ last.op = "login" /\ last.cnt0 = 5 /\ last.correct /\ last.res = "ok"
    /\ LoggedInAs(last.u) /\ Attempts(last.u).count = 0

(* The device secret: the cookie, or the key kept in memory when the       *)
(* browser did not take the cookie                                         *)
DeviceSecret(jar, mem) ==
    IF "device_enc_key" \in DOMAIN jar THEN <<jar["device_enc_key"]>> ELSE mem

(* C12: after login(u, p) succeeds the controller is logged in as u, the   *)
(* session marker names u, the stored wrapped password unwraps under the   *)
(* device secret to p, and the call has started the periodic sync when the *)
(* loaded profile has autoSync and has started none when it has not.       *)
C12_LoginPostState ==
    [][ (last'.op = "login" /\ last'.res = "ok")
        => /\ IsUser(isLoggedIn', currentUser', last'.u)
           /\ currentUser' = last'.user
           /\ "user_session" \in DOMAIN ls'
           /\ ls'["user_session"].username = last'.u
           /\ "user_password_enc" \in DOMAIN ls'
           /\ DeviceSecret(ck', deviceKey') # <<>>
           /\ decrypt(ls'["user_password_enc"], DeviceSecret(ck', deviceKey')[1])
                 = <<last'.p>>
           /\ last'.user[1].settings.autoSync => syncTimer'
           /\ ~last'.user[1].settings.autoSync => (syncTimer' => syncTimer) ]_vars

C12_Witness ==
    /\ last.op = "login" /\ last.res = "ok" /\ LoggedInAs(last.u)
    /\ ~currentUser[1].settings.autoSync /\ ~syncTimer
    /\ "user_session" \in DOMAIN ls /\ ls["user_session"].username = last.u

(* The wrapped password as the device-secret cookie opens it: <<>> when    *)
(* either is absent or the cookie is not its key                           *)
Unwrapped(st, jar) ==
    IF "user_password_enc" \in DOMAIN st /\ "device_enc_key" \in DOMAIN jar
    THEN decrypt(st["user_password_enc"], jar["device_enc_key"])
    ELSE <<>>

(* The session marker names u, the wrapped password unwraps, and the       *)
(* unwrapped password decrypts the profile envelope of u                   *)
AutoLoginAble(u) ==
    /\ "user_session" \in DOMAIN ls
    /\ ls["user_session"].username = u
    /\ Unwrapped(ls, ck) # <<>>
    /\ Decrypts(ls, u, Unwrapped(ls, ck)[1])

(* C13: the auto-login of a new controller ends logged in as u only if the *)
(* session marker names u, the wrapped password unwraps under the device   *)
(* secret and the unwrapped password decrypts the profile envelope of u;   *)
(* in every other case it returns false, the controller stays logged out   *)
(* and no failed-attempt counter changes.                                  *)
C13_AutoLoginOnlyIf ==
    [][ last'.op = "startup"
        => /\ \A u \in Users :
                 IsUser(isLoggedIn', currentUser', u) => AutoLoginAble(u)
           /\ (~\E u \in Users : AutoLoginAble(u))
                 => /\ last'.res = "false"
                    /\ ~isLoggedIn'
                    /\ currentUser' = <<>>
                    /\ \A u \in Users :
                          getItem(ls', attemptsKey(u)) = getItem(ls, attemptsKey(u)) ]_vars

(* an auto-login that found the session marker and failed to unwrap        *)
C13_Witness ==
    /\ last.op = "startup" /\ last.res = "false" /\ last.u = "alice"
    /\ ~isLoggedIn /\ currentUser = <<>>
    /\ "user_password_enc" \notin DOMAIN ls
    /\ attemptsKey("alice") \notin DOMAIN ls

(* C14: after a successful login or register of u that no logout followed, *)
(* a new controller started over the same storage and the same device-     *)
(* secret cookie becomes logged in as u by its auto-login.                 *)
C14_ReloadRestoresSession ==
    [][ ( /\ last'.op = "startup"
          /\ authed # <<>>
          /\ "device_enc_key" \in DOMAIN ck )
        => IsUser(isLoggedIn', currentUser', authed[1]) ]_vars

(* C15: when logout returns the session marker is absent, the controller   *)
(* is logged out with no current user and no periodic sync timer is        *)
(* active; a full logout leaves no wrapped password, a standard logout     *)
(* leaves the wrapped password exactly as it was.                          *)
C15_LogoutPostState ==
    [][ last'.op = "logout"
        => /\ "user_session" \notin DOMAIN ls'
           /\ ~isLoggedIn'
           /\ currentUser' = <<>>
           /\ ~syncTimer'
           /\ last'.force => "user_password_enc" \notin DOMAIN ls'
           /\ ~last'.force
                 => getItem(ls', "user_password_enc") = getItem(ls, "user_password_enc")
      ]_vars

(* a standard logout that kept a wrapped password                          *)
C15_Witness ==
    /\ last.op = "logout" /\ ~last.force
    /\ "user_password_enc" \in DOMAIN ls
    /\ "user_session" \notin DOMAIN ls
    /\ ~isLoggedIn /\ currentUser = <<>> /\ ~syncTimer

(* C16: register with a username shorter than 3 characters, a password     *)
(* shorter than 8 characters or an email not of the shape x@y.z fails with *)
(* a validation error and changes no storage backend and nothing of the    *)
(* controller state.                                                       *)
C16_InvalidRegisterChangesNothing ==
    [][ ( /\ last'.op = "register"
          /\ <<last'.u, last'.p, last'.e>> \in InvalidRegistrations )
        => /\ last'.res = "ValidationError"
           /\ ls' = ls /\ ss' = ss /\ ck' = ck
           /\ currentUser' = currentUser
           /\ isLoggedIn' = isLoggedIn
           /\ syncEnabled' = syncEnabled
           /\ syncTimer' = syncTimer ]_vars

(* a register with a malformed email refused while a user is logged in     *)
C16_Witness ==
    /\ last.op = "register" /\ last.e = BadEmail /\ last.res = "ValidationError"
    /\ isLoggedIn /\ profileKey(last.u) \notin DOMAIN ls

(* What a forceOverwrite register of last'.u over stored data does: it     *)
(* succeeds, leaves none of the older keys of u in local storage or in the *)
(* cookies, and leaves under profile_<u> the new envelope only             *)
ForcedRegisterCleans ==
    ( /\ last'.op = "register" /\ last'.force
      /\ ValidInputs(last'.u, last'.p, last'.e)
      /\ checkUserExists(ls, last'.u) )
    => /\ last'.res = "ok"
       /\ \A k \in userDataKeys(last'.u) \ {profileKey(last'.u)} :
             k \notin DOMAIN ls' /\ k \notin DOMAIN ck'
       /\ profileKey(last'.u) \notin DOMAIN ck'
       /\ Envelope(ls', last'.u) = <<encrypt(JSONstringify(last'.user[1]), last'.p)>>

StoredProfile(st, u) == JSONparse(st[profileKey(u)].pt)

(* C18: save writes the envelope into the backend named by the profile's   *)
(* storageMode and into no other: a profile with storageMode = session is  *)
(* not in persistent local storage.  (Every envelope found in local        *)
(* storage after a call was written there by save.)                        *)
C18_SaveFollowsStorageMode ==
    \A u \in Users :
        profileKey(u) \in DOMAIN ls
            => StoredProfile(ls, u).settings.storageMode # "session"

(* C19: load(u, pw) returns null exactly when no envelope is stored for u: *)
(* with an envelope stored that pw does not decrypt it does not return     *)
(* null (it propagates the failed decryption).                             *)
C19_LoadNullOnlyWhenAbsent ==
    \A u \in Users, pw \in Passwords :
        (loadUserProfile(ls, u, pw) = <<>>) <=> (profileKey(u) \notin DOMAIN ls)

(* C20: when migrateStorage(fromMode, toMode) has succeeded between two    *)
(* modes of different backends, the backend of toMode holds an envelope of *)
(* the user's profile and the backend of fromMode holds none.              *)
C20_MigrationMovesEnvelope ==
    ( /\ last.op = "changeStorageMode" /\ last.mig = "ok"
      /\ (last.from = "session") # (last.mode = "session") )
    => last.toHolds /\ ~last.fromHolds

(* A step between two positions of migrateStorage removes the envelope of  *)
(* the user from a backend                                                 *)
RemovesEnvelope ==
    \/ profileKey(mig.u) \in DOMAIN ls /\ profileKey(mig.u) \notin DOMAIN ls'
    \/ profileKey(mig.u) \in DOMAIN ss /\ profileKey(mig.u) \notin DOMAIN ss'
    \/ profileKey(mig.u) \in DOMAIN ck /\ profileKey(mig.u) \notin DOMAIN ck'

(* C21: at every position of migrateStorage, its end by return or by throw *)
(* included, the password that opened the user's stored profile when       *)
(* migrateStorage was entered still opens an envelope of it in some        *)
(* backend, and if any envelope of the user could be opened then, one of   *)
(* those passwords still opens one; and a step of it that removes an       *)
(* envelope of the user comes after the write to the new backend has       *)
(* completed.                                                              *)
C21_MigrationKeepsACopy ==
    [][ /\ (pc' # "idle" /\ mig'.key0 # <<>>)
              => mig'.key0[1] \in EnvelopeKeys([ls |-> ls', ss |-> ss', ck |-> ck'], mig'.u)
        /\ (pc' # "idle" /\ mig'.keys0 # {})
              => mig'.keys0 \cap EnvelopeKeys([ls |-> ls', ss |-> ss', ck |-> ck'], mig'.u) # {}
        /\ (pc # "idle" /\ pc' # "idle" /\ RemovesEnvelope) => pc = "written" ]_vars

(* migrateStorage(browser, session) has returned: both backends hold an    *)
(* envelope under the password that opened the one in local storage        *)
C21_Witness ==
    /\ pc = "migrated" /\ mig.from = "browser" /\ mig.to = "session"
    /\ mig.keys0 = {"Password123"}
    /\ Decrypts(ls, mig.u, "Password123")
    /\ Decrypts(ss, mig.u, "Password123")

(* Two profile documents are equal apart from the time of the sync         *)
SameDocument(a, b) == assign(a, "lastSync", <<>>) = assign(b, "lastSync", <<>>)

(* C22: a logged-in user's changeStorageMode(session) and the              *)
(* changeStorageMode back to the persistent mode that follows it both      *)
(* succeed, and load(u, pw) then returns the document it returned before   *)
(* the two switches, apart from timestamps.                                *)
C22_SessionAndBack ==
    ( /\ last.op = "changeStorageMode" /\ last.first # <<>>
      /\ last.mode = last.first[1].from )
    => /\ last.first[1].res = "ok"
       /\ last.res = "ok"
       /\ loadUserProfile(ls, last.u, last.first[1].pw0) # <<>>
       /\ SameDocument(loadUserProfile(ls, last.u, last.first[1].pw0)[1],
                       last.first[1].doc0)

(* The profile of the bundle staged in session storage st                  *)
StagedProfile(st) == JSONparse(st["pendingImport_enc"].pt).profile[1]

(* C23: a login(b, p) made while a bundle for username b is staged         *)
(* completes the import: load(b, p) then returns a profile equal field for *)
(* field to the profile of the bundle, and the staged bundle and its key   *)
(* are gone from session storage.                                          *)
C23_ImportRoundTrip ==
    [][ (last'.op = "login" /\ PendingFor(last'.u))
        => /\ loadUserProfile(ls', last'.u, last'.p) = <<StagedProfile(ss)>>
           /\ "pendingImport_enc" \notin DOMAIN ss'
           /\ "pendingImport_key" \notin DOMAIN ss' ]_vars

(* a bundle for bob completed over the profile registered for bob          *)
C23_Witness ==
    /\ last.op = "login" /\ last.u = "bob" /\ last.res = "ok"
    /\ last.correct
    /\ loadUserProfile(ls, "bob", last.p) = <<bundleProfile("bob")>>
    /\ "pendingImport_enc" \notin DOMAIN ss

(* The document of the envelope stored for u in st is an imported one (the *)
(* bundles carry an email address that no registration uses)               *)
HoldsImported(st, u) ==
    profileKey(u) \in DOMAIN st /\ JSONparse(st[profileKey(u)].pt).email = EmailZ

(* C24: importAccount writes nothing to local storage or to the cookies,   *)
(* and what it stages in session storage is the bundle encrypted under the *)
(* one-time key; the staging keys are never in local storage or a cookie;  *)
(* and an imported profile comes to local storage only in the login that   *)
(* completes the staged import, encrypted under the password of that       *)
(* login.                                                                  *)
C24_ImportStagesInSessionOnly ==
    [][ /\ last'.op = "import"
            => /\ ls' = ls /\ ck' = ck
               /\ last'.res = "ok"
                     => /\ "pendingImport_enc" \in DOMAIN ss'
                        /\ StagedProfile(ss').username = last'.u
                        /\ ss'["pendingImport_enc"].key = ss'["pendingImport_key"]
                        /\ \A k \in (DOMAIN ss \cup DOMAIN ss')
                                      \ {"pendingImport_enc", "pendingImport_key"} :
                              getItem(ss', k) = getItem(ss, k)
               /\ last'.res # "ok" => ss' = ss
        /\ \A k \in {"pendingImport_enc", "pendingImport_key"} :
               k \notin DOMAIN ls' /\ k \notin DOMAIN ck'
        /\ \A u \in Users :
               (HoldsImported(ls', u) /\ ~HoldsImported(ls, u))
               => /\ last'.op = "login" /\ last'.u = u
                  /\ PendingFor(u)
                  /\ ls'[profileKey(u)] = encrypt(JSONstringify(StagedProfile(ss)), last'.p)
      ]_vars

(* a bundle staged for a user who is registered: local storage holds the   *)
(* registered profile only                                                 *)
C24_Witness ==
    /\ last.op = "import" /\ last.res = "ok" /\ PendingFor(last.u)
    /\ profileKey(last.u) \in DOMAIN ls /\ ~HoldsImported(ls, last.u)

(* The wrapped password as the device secret of the session (the cookie,   *)
(* or the key kept in memory) opens it: <<>> when it does not              *)
Recoverable ==
    IF "user_password_enc" \in DOMAIN ls /\ DeviceSecret(ck, deviceKey) # <<>>
    THEN decrypt(ls["user_password_enc"], DeviceSecret(ck, deviceKey)[1])
    ELSE <<>>

(* C25: updateProfile of a logged-in user called without a password fails  *)
(* with PasswordRequired and leaves the stored envelope as it was when no  *)
(* wrapped password can be unwrapped; with a password supplied, or         *)
(* recovered from the wrapped one, it succeeds, and load with that         *)
(* password then returns the current profile with the partial fields       *)
(* merged in.                                                              *)
C25_UpdateResolvesPassword ==
    [][ (last'.op = "updateProfile" /\ isLoggedIn)
        => /\ (last'.p = "" /\ Recoverable = <<>>)
                => /\ last'.res = "PasswordRequired"
                   /\ Envelope(ls', last'.u) = Envelope(ls, last'.u)
           /\ (last'.p # "" \/ Recoverable # <<>>)
                => /\ last'.res = "ok"
                   /\ \E updates \in Updates :
                         currentUser' = <<merge(currentUser[1], updates)>>
                   /\ loadUserProfile(ls', last'.u,
                          IF last'.p # "" THEN last'.p ELSE Recoverable[1])
                        = currentUser' ]_vars

C27_OneSecretPerSession ==
    \A draw \in Draws :
        /\ DeviceSecret(ck, deviceKey) # <<>>
              => getDeviceEncryptionKey(ck, cookiesEnabled, draw, deviceKey).key
                    = DeviceSecret(ck, deviceKey)[1]
        /\ Recoverable # <<>>
              => getDecryptionPassword(Store, cookiesEnabled, draw).pw = Recoverable

(* v is the output of encrypt: an envelope, not a serialized document      *)
IsEnvelope(v) == DOMAIN v = {"key", "pt"}

(* C28: in every reachable state every value stored under a profile key in *)
(* local storage, session storage or a cookie, and the value stored under  *)
(* user_password_enc, is an envelope made by encrypt (of a serialized      *)
(* profile, and of the password under a device key, never under the        *)
(* password itself), and the session marker has the fields username and    *)
(* loginTime only.                                                         *)
C28_OnlyEnvelopesStored ==
    /\ \A u \in Users : \A st \in {ls, ss, ck} :
           profileKey(u) \in DOMAIN st
              => /\ IsEnvelope(st[profileKey(u)])
                 /\ DOMAIN st[profileKey(u)].pt = {"json"}
    /\ "user_password_enc" \in DOMAIN ls
           => /\ IsEnvelope(ls["user_password_enc"])
              /\ ls["user_password_enc"].key \in DeviceKeys
    /\ "user_password_enc" \notin (DOMAIN ss \cup DOMAIN ck)
    /\ "user_session" \in DOMAIN ls
           => DOMAIN ls["user_session"] = {"username", "loginTime"}

(* a profile envelope in session storage next to the one in local storage, *)
(* the wrapped password and the session marker                             *)
C28_Witness ==
    /\ profileKey("alice") \in DOMAIN ss /\ profileKey("alice") \in DOMAIN ls
    /\ "user_password_enc" \in DOMAIN ls /\ "user_session" \in DOMAIN ls
    /\ ss[profileKey("alice")].key = "Password123"

(* C29: no call of the controller raises to its caller: the result of the  *)
(* call that ended last is a value, a success or a failure, never an       *)
(* exception.                                                              *)
C29_NeverRaises == last.res # "raised"

-----------------------------------------------------------------------------
(* CryptoUtils on code units and bytes.  A string is a sequence of UTF-16  *)
(* code units, a buffer a sequence of bytes, a base64 text a sequence of   *)
(* digits 0..63 with 64 for the padding sign.  PBKDF2 and AES-GCM are      *)
(* stand-ins that keep what the callers rely on: the key depends on the    *)
(* password bytes and the salt, the cipher is a byte-wise keystream, and   *)
(* the 16 tag bytes are checked before anything is returned.               *)

MaxLen == 3

CodeUnits == {97, 233, 65279, 55357, 56832}
Strings(n) == UNION {[1..k -> CodeUnits] : k \in 0..n}
CryptoPasswords == {<<97>>, <<233, 97>>, <<55357, 97>>, <<56832, 97>>}
SaltDraws == {0, 200}
IvDraws == {7}

generateSalt(d) == [i \in 1..16 |-> (d + i) % 256]
(* Variant: the same IV on every call                                      *)
generateIV_fixed(d) == [i \in 1..12 |-> 0]

generateIV(d) == [i \in 1..12 |-> (d * i) % 256]

IsHigh(c) == c >= 55296 /\ c <= 56319
IsLow(c) == c >= 56320 /\ c <= 57343
IsCont(b) == b >= 128 /\ b <= 191

UTF8(cp) ==
    IF cp < 128 THEN <<cp>>
    ELSE IF cp < 2048 THEN <<192 + (cp \div 64), 128 + (cp % 64)>>
    ELSE IF cp < 65536
    THEN <<224 + (cp \div 4096), 128 + ((cp \div 64) % 64), 128 + (cp % 64)>>
    ELSE <<240 + (cp \div 262144), 128 + ((cp \div 4096) % 64),
           128 + ((cp \div 64) % 64), 128 + (cp % 64)>>

UTF16(cp) ==
    IF cp < 65536 THEN <<cp>>
    ELSE <<55296 + ((cp - 65536) \div 1024), 56320 + ((cp - 65536) % 1024)>>

(* new TextEncoder().encode(s): a surrogate pair is one code point, a lone *)
(* surrogate is replaced by U+FFFD                                         *)
RECURSIVE TextEncoder_encode(_)
TextEncoder_encode(s) ==
    IF s = <<>> THEN <<>>
    ELSE IF IsHigh(s[1]) /\ Len(s) >= 2 /\ IsLow(s[2])
    THEN UTF8(65536 + (s[1] - 55296) * 1024 + (s[2] - 56320))
            \o TextEncoder_encode(SubSeq(s, 3, Len(s)))
    ELSE IF IsHigh(s[1]) \/ IsLow(s[1])
    THEN UTF8(65533) \o TextEncoder_encode(Tail(s))
    ELSE UTF8(s[1]) \o TextEncoder_encode(Tail(s))

(* the UTF-8 decoder: an ill-formed byte gives U+FFFD (one byte at a time, *)
(* which is all that matters here: buffers that pass the tag check were    *)
(* made by TextEncoder)                                                    *)
RECURSIVE utf8Decode(_)
utf8Decode(b) ==
    IF b = <<>> THEN <<>>
    ELSE IF b[1] < 128 THEN <<b[1]>> \o utf8Decode(Tail(b))
    ELSE IF /\ b[1] >= 194 /\ b[1] <= 223
            /\ Len(b) >= 2 /\ IsCont(b[2])
    THEN <<(b[1] - 192) * 64 + (b[2] - 128)>>
            \o utf8Decode(SubSeq(b, 3, Len(b)))
    ELSE IF /\ b[1] >= 224 /\ b[1] <= 239
            /\ Len(b) >= 3 /\ IsCont(b[2]) /\ IsCont(b[3])
            /\ (b[1] - 224) * 4096 + (b[2] - 128) * 64 >= 2048
            /\ ~(b[1] = 237 /\ b[2] >= 160)
    THEN <<(b[1] - 224) * 4096 + (b[2] - 128) * 64 + (b[3] - 128)>>
            \o utf8Decode(SubSeq(b, 4, Len(b)))
    ELSE IF /\ b[1] >= 240 /\ b[1] <= 244
            /\ Len(b) >= 4 /\ IsCont(b[2]) /\ IsCont(b[3]) /\ IsCont(b[4])
            /\ (b[1] - 240) * 262144 + (b[2] - 128) * 4096 >= 65536
            /\ (b[1] - 240) * 262144 + (b[2] - 128) * 4096 < 1114112
    THEN UTF16((b[1] - 240) * 262144 + (b[2] - 128) * 4096
                  + (b[3] - 128) * 64 + (b[4] - 128))
            \o utf8Decode(SubSeq(b, 5, Len(b)))
    ELSE <<65533>> \o utf8Decode(Tail(b))

(* new TextDecoder().decode(b): ignoreBOM is false, so a byte order mark   *)
(* at the start of the buffer is dropped                                   *)
TextDecoder_decode(b) ==
    IF Len(b) >= 3 /\ SubSeq(b, 1, 3) = <<239, 187, 191>>
    THEN utf8Decode(SubSeq(b, 4, Len(b)))
    ELSE utf8Decode(b)

RECURSIVE arrayBufferToBase64(_)
arrayBufferToBase64(b) ==
    IF b = <<>> THEN <<>>
    ELSE IF Len(b) = 1 THEN <<b[1] \div 4, (b[1] % 4) * 16, 64, 64>>
    ELSE IF Len(b) = 2
    THEN <<b[1] \div 4, ((b[1] % 4) * 16) + (b[2] \div 16), (b[2] % 16) * 4, 64>>
    ELSE <<b[1] \div 4, ((b[1] % 4) * 16) + (b[2] \div 16),
           ((b[2] % 16) * 4) + (b[3] \div 64), b[3] % 64>>
            \o arrayBufferToBase64(SubSeq(b, 4, Len(b)))

RECURSIVE base64ToArrayBuffer(_)
base64ToArrayBuffer(c) ==
    IF Len(c) < 4 THEN <<>>
    ELSE (IF c[3] = 64 THEN <<(c[1] * 4) + (c[2] \div 16)>>
          ELSE IF c[4] = 64
          THEN <<(c[1] * 4) + (c[2] \div 16), ((c[2] % 16) * 16) + (c[3] \div 4)>>
          ELSE <<(c[1] * 4) + (c[2] \div 16), ((c[2] % 16) * 16) + (c[3] \div 4),
                 ((c[3] % 4) * 64) + c[4]>>)
            \o base64ToArrayBuffer(SubSeq(c, 5, Len(c)))

RECURSIVE Sum(_)
Sum(b) == IF b = <<>> THEN 0 ELSE b[1] + Sum(Tail(b))

(* 32 key bytes from the password and the salt                             *)
deriveKey(password, salt) ==
    [i \in 1..32 |->
        (Sum(TextEncoder_encode(password)) * i
            + (IF i <= Len(TextEncoder_encode(password))
               THEN TextEncoder_encode(password)[i] ELSE 0)
            + salt[((i - 1) % 16) + 1]) % 256]

keystream(key, iv, i) == (key[((i - 1) % 32) + 1] + iv[((i - 1) % 12) + 1] + i) % 256

tag(key, iv, ct) ==
    [j \in 1..16 |-> (key[j] + key[j + 16] + iv[((j - 1) % 12) + 1]
                        + Sum(ct) + Len(ct)) % 256]

(* crypto.subtle.encrypt: cipher bytes followed by the tag                 *)
subtleEncrypt(key, iv, data) ==
    [i \in 1..Len(data) |-> (data[i] + keystream(key, iv, i)) % 256]
        \o tag(key, iv, [i \in 1..Len(data) |-> (data[i] + keystream(key, iv, i)) % 256])

(* crypto.subtle.decrypt: <<>> is the OperationError of a failed tag check *)
subtleDecrypt(key, iv, encrypted) ==
    IF Len(encrypted) < 16
       \/ SubSeq(encrypted, Len(encrypted) - 15, Len(encrypted))
             # tag(key, iv, SubSeq(encrypted, 1, Len(encrypted) - 16))
    THEN <<>>
    ELSE << [i \in 1..(Len(encrypted) - 16) |->
                (encrypted[i] + 256 - keystream(key, iv, i)) % 256] >>

CryptoUtils_encrypt(plaintext, password, salt, iv) ==
    arrayBufferToBase64(
        salt \o iv \o subtleEncrypt(deriveKey(password, salt), iv,
                                    TextEncoder_encode(plaintext)))

decryptCombined(combined, password) ==
    IF Len(combined) < 28
       \/ subtleDecrypt(deriveKey(password, SubSeq(combined, 1, 16)),
                        SubSeq(combined, 17, 28),
                        SubSeq(combined, 29, Len(combined))) = <<>>
    THEN [ok |-> FALSE, text |-> <<>>]
    ELSE [ok |-> TRUE,
          text |-> TextDecoder_decode(
                      subtleDecrypt(deriveKey(password, SubSeq(combined, 1, 16)),
                                    SubSeq(combined, 17, 28),
                                    SubSeq(combined, 29, Len(combined)))[1])]

(* ok = FALSE is the thrown 'Failed to decrypt data' error                 *)
CryptoUtils_decrypt(encryptedData, password) ==
    decryptCombined(base64ToArrayBuffer(encryptedData), password)

(* A caller holds a plaintext and a password, encrypts once and hands the  *)
(* result to decrypt with a password.                                      *)
InitCrypto ==
    /\ ls = EmptyStore
    /\ ss = EmptyStore
    /\ ck = EmptyStore
    /\ cookiesEnabled = TRUE
    /\ now = 0
    /\ currentUser = <<>>
    /\ isLoggedIn = FALSE
    /\ syncEnabled = FALSE
    /\ syncTimer = FALSE
    /\ deviceKey = <<>>
    /\ template = defaultSettings
    /\ shared = FALSE
    /\ last = NoCall
    /\ streak = [u |-> "", n |-> 0]
    /\ authed = <<>>
    /\ calls = 0
    /\ pc = "idle"
    /\ mig = NoMigration
    /\ lastActivityTime = 0
    /\ timers = 0
    /\ crypto \in {[NoCrypto EXCEPT !.plaintext = <<s>>, !.password = <<p>>] :
                      s \in Strings(MaxLen), p \in CryptoPasswords}

CryptoEncryptReturns(r) ==
    /\ crypto.envelope = <<>>
    /\ crypto' = [crypto EXCEPT !.envelope = <<r>>]
    /\ UNCHANGED <<ls, ss, ck, cookiesEnabled, now, lastActivityTime,
                   currentUser, isLoggedIn, syncEnabled, syncTimer, timers,
                   deviceKey, template, shared, pc, mig, last, streak,
                   authed, calls>>

CryptoEncrypt(sd, id) ==
    CryptoEncryptReturns(
        CryptoUtils_encrypt(crypto.plaintext[1], crypto.password[1],
                            generateSalt(sd), generateIV(id)))

CryptoDecryptReturns(password, r) ==
    /\ crypto.envelope # <<>>
    /\ crypto.out = <<>>
    /\ crypto' = [crypto EXCEPT
                     !.out = <<[password |-> password, ok |-> r.ok,
                                text |-> r.text]>>]
    /\ UNCHANGED <<ls, ss, ck, cookiesEnabled, now, lastActivityTime,
                   currentUser, isLoggedIn, syncEnabled, syncTimer, timers,
                   deviceKey, template, shared, pc, mig, last, streak,
                   authed, calls>>

CryptoDecrypt(password) ==
    /\ crypto.envelope # <<>>
    /\ CryptoDecryptReturns(password,
                            CryptoUtils_decrypt(crypto.envelope[1], password))

NextCrypto ==
    \/ \E sd \in SaltDraws, id \in IvDraws : CryptoEncrypt(sd, id)
    \/ \E password \in CryptoPasswords : CryptoDecrypt(password)

SpecCrypto == InitCrypto /\ [][NextCrypto]_vars

(* C30: decrypt, given what encrypt made of a plaintext and a password and *)
(* the same password, returns that plaintext.                              *)
C30_RoundTrip ==
    (crypto.out # <<>> /\ crypto.out[1].password = crypto.password[1])
        => crypto.out[1].ok /\ crypto.out[1].text = crypto.plaintext[1]

(* C31: decrypt, given what encrypt made under one password and another    *)
(* password, fails and returns no string.                                  *)
C31_WrongPasswordFails ==
    (crypto.out # <<>> /\ crypto.out[1].password # crypto.password[1])
        => ~crypto.out[1].ok

-----------------------------------------------------------------------------
(* Repeated encrypt calls.  crypto.getRandomValues is taken to return a    *)
(* value it has not returned before: rng counts its calls and the d-th     *)
(* call returns the bytes made from d.  made lists the salt, the IV and    *)
(* the result of every encrypt call so far; stored is the value that       *)
(* setEncryptedLocalStorage wrote under one key and replaced the value it  *)
(* replaced.                                                               *)

MaxEncrypts == 3

SavedTexts == {<<>>, <<97>>, <<233, 97>>, <<65279, 97>>}

InitFresh ==
    /\ ls = EmptyStore
    /\ ss = EmptyStore
    /\ ck = EmptyStore
    /\ cookiesEnabled = TRUE
    /\ now = 0
    /\ currentUser = <<>>
    /\ isLoggedIn = FALSE
    /\ syncEnabled = FALSE
    /\ syncTimer = FALSE
    /\ deviceKey = <<>>
    /\ template = defaultSettings
    /\ shared = FALSE
    /\ last = NoCall
    /\ streak = [u |-> "", n |-> 0]
    /\ authed = <<>>
    /\ calls = 0
    /\ pc = "idle"
    /\ mig = NoMigration
    /\ lastActivityTime = 0
    /\ timers = 0
    /\ crypto \in {[NoCrypto EXCEPT !.plaintext = <<s>>, !.password = <<p>>] :
                      s \in SavedTexts, p \in CryptoPasswords}

(* r is what encrypt returned for the salt and the IV drawn                *)
EncryptAgainReturns(salt, iv, r) ==
    /\ crypto' = [crypto EXCEPT
                     !.envelope = <<r>>, !.out = <<>>, !.rng = @ + 2,
                     !.made = Append(@, [salt |-> salt, iv |-> iv, envelope |-> r])]
    /\ UNCHANGED <<ls, ss, ck, cookiesEnabled, now, lastActivityTime,
                   currentUser, isLoggedIn, syncEnabled, syncTimer, timers,
                   deviceKey, template, shared, pc, mig, last, streak,
                   authed, calls>>

EncryptAgain ==
    /\ Len(crypto.made) < MaxEncrypts
    /\ EncryptAgainReturns(
          generateSalt(crypto.rng), generateIV(crypto.rng + 1),
          CryptoUtils_encrypt(crypto.plaintext[1], crypto.password[1],
                              generateSalt(crypto.rng), generateIV(crypto.rng + 1)))

(* setEncryptedLocalStorage with the serialized data crypto.plaintext      *)
SaveAgainReturns(salt, iv, r) ==
    /\ crypto' = [crypto EXCEPT
                     !.stored = <<r>>, !.replaced = crypto.stored, !.rng = @ + 2,
                     !.made = Append(@, [salt |-> salt, iv |-> iv, envelope |-> r])]
    /\ UNCHANGED <<ls, ss, ck, cookiesEnabled, now, lastActivityTime,
                   currentUser, isLoggedIn, syncEnabled, syncTimer, timers,
                   deviceKey, template, shared, pc, mig, last, streak,
                   authed, calls>>

SaveAgain ==
    /\ Len(crypto.made) < MaxEncrypts
    /\ SaveAgainReturns(
          generateSalt(crypto.rng), generateIV(crypto.rng + 1),
          CryptoUtils_encrypt(crypto.plaintext[1], crypto.password[1],
                              generateSalt(crypto.rng), generateIV(crypto.rng + 1)))

NextFresh ==
    \/ EncryptAgain
    \/ SaveAgain
    \/ \E password \in CryptoPasswords : CryptoDecrypt(password)

SpecFresh == InitFresh /\ [][NextFresh]_vars

(* C32: no two encrypt calls used the same salt or the same IV, no two of  *)
(* them (all of the same plaintext and password) returned the same         *)
(* envelope, and a save replaced the stored envelope by a different one.   *)
C32_FreshSaltAndIV ==
    /\ \A i, j \in 1..Len(crypto.made) :
           i # j => /\ crypto.made[i].salt # crypto.made[j].salt
                    /\ crypto.made[i].iv # crypto.made[j].iv
                    /\ crypto.made[i].envelope # crypto.made[j].envelope
    /\ crypto.replaced # <<>> => crypto.stored # crypto.replaced

(* three calls were made, and the last save replaced an earlier envelope   *)
C32_Witness ==
    /\ Len(crypto.made) = MaxEncrypts
    /\ crypto.replaced # <<>>
    /\ crypto.envelope # <<>>

-----------------------------------------------------------------------------
(* syncUserData taken one await at a time, as the periodic timer runs it   *)
(* while other calls are made.  pc is the line at which the call waits and *)
(* mig holds its locals (password, the username and the profile handed to  *)
(* saveUserProfile, the device key).  The other calls stay atomic.         *)

MaxRaceCalls == 4

(* 545-552: logged in and enabled, the call waits for getCurrentAppData    *)
SyncBegin ==
    /\ pc = "idle"
    /\ isLoggedIn /\ syncEnabled
    /\ pc' = "sync552"
    /\ mig' = NoMigration
    /\ UNCHANGED <<ls, ss, ck, cookiesEnabled, now, lastActivityTime,
                   currentUser, isLoggedIn, syncEnabled, syncTimer, timers,
                   deviceKey, template, shared, crypto, last, streak, authed>>

(* 555-561: the stamps on currentUser (a TypeError, caught at 569, when it *)
(* is null by now) and getDecryptionPassword, which returned g             *)
SyncStampReturns(g) ==
    /\ ls' = g.S.ls
    /\ ck' = g.S.ck
    /\ deviceKey' = g.S.mem
    /\ currentUser' = <<assign(currentUser[1], "lastSync", <<"Date.now">>)>>
    /\ mig' = [mig EXCEPT !.password = <<asText(g.pw)>>]
    /\ pc' = "sync561"
    /\ UNCHANGED <<ss, cookiesEnabled, now, lastActivityTime, isLoggedIn,
                   syncEnabled, syncTimer, timers, template, shared, crypto,
                   last, streak, authed>>

SyncStamp ==
    /\ pc = "sync552"
    /\ IF currentUser = <<>>
       THEN /\ pc' = "idle"
            /\ UNCHANGED <<ls, ss, ck, cookiesEnabled, now, lastActivityTime,
                           currentUser, isLoggedIn, syncEnabled, syncTimer,
                           timers, deviceKey, template, shared, mig, crypto,
                           last, streak, authed>>
       ELSE SyncStampReturns(getDecryptionPassword(Store, cookiesEnabled, FreshKey(ls)))

(* 564: the arguments of saveUserProfile are read (a TypeError when        *)
(* currentUser is null by now) and setEncryptedLocalStorage serializes the *)
(* profile                                                                 *)
SyncCall ==
    /\ pc = "sync561"
    /\ IF currentUser = <<>>
       THEN pc' = "idle" /\ mig' = NoMigration
       ELSE /\ pc' = "sync866"
            /\ mig' = [mig EXCEPT !.u = currentUser[1].username,
                                  !.profileData = currentUser]
    /\ UNCHANGED <<ls, ss, ck, cookiesEnabled, now, lastActivityTime,
                   currentUser, isLoggedIn, syncEnabled, syncTimer, timers,
                   deviceKey, template, shared, crypto, last, streak, authed>>

(* 866-869: the envelope is written and the device key, dk, fetched        *)
SyncWriteProfileReturns(dk) ==
    /\ ls' = setEncryptedLocalStorage(ls, profileKey(mig.u), mig.profileData[1],
                                       mig.password[1])
    /\ ck' = dk.ck
    /\ deviceKey' = dk.mem
    /\ mig' = [mig EXCEPT !.dk = <<dk.key>>]
    /\ pc' = "sync870"
    /\ UNCHANGED <<ss, cookiesEnabled, now, lastActivityTime, currentUser,
                   isLoggedIn, syncEnabled, syncTimer, timers, template,
                   shared, crypto, last, streak, authed>>

SyncWriteProfile ==
    /\ pc = "sync866"
    /\ SyncWriteProfileReturns(
          getDeviceEncryptionKey(ck, cookiesEnabled, FreshKey(ls), deviceKey))

(* 870-877: the wrapped password and the session marker are written        *)
SyncWriteCredentials ==
    /\ pc = "sync870"
    /\ ls' = setItem(setItem(ls, "user_password_enc",
                             encrypt(mig.password[1], mig.dk[1])),
                     "user_session",
                     [username |-> mig.u, loginTime |-> "Date.now"])
    /\ pc' = "idle"
    /\ mig' = NoMigration
    /\ UNCHANGED <<ss, ck, cookiesEnabled, now, lastActivityTime,
                   currentUser, isLoggedIn, syncEnabled, syncTimer, timers,
                   deviceKey, template, shared, crypto, last, streak, authed>>

NextRace ==
    \/ /\ calls < MaxRaceCalls
       /\ calls' = calls + 1
       /\ \/ \E draw \in Draws :
                Register("alice", "Password123", EmailA, "", FALSE, draw)
          \/ \E draw \in Draws : Login("alice", "Password123", draw)
          \/ \E fullLogout \in BOOLEAN : Logout(fullLogout)
    \/ /\ UNCHANGED calls
       /\ (SyncBegin \/ SyncStamp \/ SyncCall \/ SyncWriteProfile
              \/ SyncWriteCredentials)

SpecRace == InitSession /\ [][NextRace]_vars

(* C33: after a full logout, and until the next call of the controller,    *)
(* local storage holds neither the wrapped password nor the session        *)
(* marker, whatever steps of a sync that was under way are taken.          *)
C33_FullLogoutStays ==
    (last.op = "logout" /\ last.force)
        => /\ "user_password_enc" \notin DOMAIN ls
           /\ "user_session" \notin DOMAIN ls

-----------------------------------------------------------------------------
(* syncUserData as one call, toggleSync and removeUserAccount              *)

MaxAccountCalls == 4

(* The password that opens the stored profile of the current user: <<>>    *)
(* when nobody is logged in or nothing is stored                           *)
ProfilePassword ==
    IF currentUser # <<>> /\ profileKey(currentUser[1].username) \in DOMAIN ls
    THEN <<ls[profileKey(currentUser[1].username)].key>> ELSE <<>>

(* S1 is the storage as syncUserData left it                               *)
SyncUserDataReturns(S1) ==
    /\ ls' = S1.ls
    /\ ss' = S1.ss
    /\ ck' = S1.ck
    /\ deviceKey' = S1.mem
    /\ currentUser' = IF isLoggedIn /\ syncEnabled
                      THEN <<syncedUser(isLoggedIn, syncEnabled, currentUser[1])>>
                      ELSE currentUser
    /\ last' = [NoCall EXCEPT !.op = "syncUserData",
                   !.res = IF isLoggedIn /\ syncEnabled THEN "ok" ELSE "SyncNotEnabled",
                   !.u = IF isLoggedIn THEN currentUser[1].username ELSE "",
                   !.pw0 = ProfilePassword]
    /\ streak' = [u |-> "", n |-> 0]
    /\ UNCHANGED <<cookiesEnabled, now, lastActivityTime, isLoggedIn,
                   syncEnabled, syncTimer, timers, template, shared, pc, mig,
                   crypto, authed>>

SyncUserData(draw) ==
    /\ isLoggedIn => hasSettings(currentUser[1])
    /\ SyncUserDataReturns(
          IF isLoggedIn
          THEN syncUserData(Store, cookiesEnabled, isLoggedIn, syncEnabled,
                            currentUser[1], draw, now)
          ELSE Store)

(* 1170-1172: updateProfile({settings}) after the sync; its failure is not *)
(* looked at.  The settings object that was assigned to is the one of      *)
(* defaultProfile when shared.                                             *)
toggleSyncSave(enabled, cu, S1) ==
    [updateProfileSave(cu, getDecryptionPassword(S1, cookiesEnabled, FreshKey(S1.ls)))
        EXCEPT !.res = "ok"]
        @@ [se |-> enabled, timer |-> enabled,
            template |-> IF shared THEN cu.settings ELSE template]

(* toggleSync(enabled): the result has the storage S, the profile cu, the  *)
(* flag se, the timer and the settings of defaultProfile                   *)
toggleSync(enabled, draw) ==
    IF ~isLoggedIn
    THEN [S |-> Store, cu |-> currentUser, res |-> "NotLoggedIn",
          se |-> syncEnabled, timer |-> syncTimer, template |-> template]
    ELSE IF ~hasSettings(currentUser[1])
    THEN [S |-> Store, cu |-> currentUser, res |-> "raised",
          se |-> enabled, timer |-> syncTimer, template |-> template]
    ELSE toggleSyncSave(
             enabled,
             syncedUser(TRUE, enabled,
                        [currentUser[1] EXCEPT !.settings.autoSync = enabled]),
             IF enabled
             THEN syncUserData(Store, cookiesEnabled, TRUE, TRUE,
                               [currentUser[1] EXCEPT !.settings.autoSync = enabled],
                               draw, now)
             ELSE Store)

ToggleSyncReturns(enabled, r) ==
    /\ ls' = r.S.ls
    /\ ss' = r.S.ss
    /\ ck' = r.S.ck
    /\ deviceKey' = r.S.mem
    /\ currentUser' = r.cu
    /\ syncEnabled' = r.se
    /\ syncTimer' = r.timer
    /\ timers' = IF r.res # "ok" THEN timers
                 ELSE IF enabled THEN startPeriodicSync(syncTimer, timers)
                 ELSE clearInterval(syncTimer, timers)
    /\ template' = r.template
    /\ last' = [NoCall EXCEPT !.op = "toggleSync", !.res = r.res,
                   !.u = IF isLoggedIn THEN currentUser[1].username ELSE "",
                   !.force = enabled, !.pw0 = ProfilePassword,
                   !.timer0 = syncTimer]
    /\ streak' = [u |-> "", n |-> 0]
    /\ UNCHANGED <<cookiesEnabled, now, lastActivityTime, isLoggedIn, shared,
                   pc, mig, crypto, authed>>

ToggleSync(enabled, draw) == ToggleSyncReturns(enabled, toggleSync(enabled, draw))

(* removeUserAccount(username, password)                                   *)
removeUserAccount(username, password) ==
    IF loadUserProfile(ls, username, password) = <<>>
    THEN [ls |-> ls, ck |-> ck, res |-> "InvalidPassword"]
    ELSE [ls |-> removeItems(ls, {profileKey(username), "user_session"}),
          ck |-> removeItems(ck, {profileKey(username), "user_login"}),
          res |-> "ok"]

RemoveUserAccountReturns(username, password, r) ==
    /\ ls' = r.ls
    /\ ck' = r.ck
    /\ last' = [NoCall EXCEPT !.op = "removeUserAccount", !.res = r.res,
                   !.u = username, !.p = password,
                   !.existed = \E st \in {ls, ss, ck} : profileKey(username) \in DOMAIN st]
    /\ streak' = [u |-> "", n |-> 0]
    /\ UNCHANGED <<ss, cookiesEnabled, now, lastActivityTime, currentUser,
                   isLoggedIn, syncEnabled, syncTimer, timers, deviceKey,
                   template, shared, pc, mig, crypto, authed>>

RemoveUserAccount(username, password) ==
    RemoveUserAccountReturns(username, password, removeUserAccount(username, password))

(* Two users with one password each; every call is atomic                  *)
NextAccount ==
    /\ calls < MaxAccountCalls
    /\ calls' = calls + 1
    /\ \/ \E u \in Users, draw \in Draws :
             Register(u, "Password123", EmailA, "", FALSE, draw)
       \/ \E u \in Users, draw \in Draws : Login(u, "Password123", draw)
       \/ \E fullLogout \in BOOLEAN : Logout(fullLogout)
       \/ \E enabled \in BOOLEAN, draw \in Draws : ToggleSync(enabled, draw)
       \/ \E draw \in Draws : SyncUserData(draw)
       \/ \E updates \in Updates, draw \in Draws : UpdateProfile(updates, <<>>, draw)
       \/ \E mode \in Modes, draw \in Draws : ChangeStorageMode(mode, draw)
       \/ \E u \in Users, p \in Passwords : RemoveUserAccount(u, p)

SpecAccount == InitSession /\ [][NextAccount]_vars

(* C34: a syncUserData, toggleSync or changeStorageMode call, or an        *)
(* updateProfile call without a password, leaves the stored profile of the *)
(* current user under the password that opened it before the call.         *)
C34_PasswordKept ==
    [][ ( /\ last'.op \in {"syncUserData", "toggleSync", "changeStorageMode",
                           "updateProfile"}
          /\ (last'.op = "updateProfile" => last'.p = "")
          /\ ProfilePassword # <<>> )
        => Decrypts(ls', currentUser[1].username, ProfilePassword[1]) ]_vars

(* C35: whenever the controller is logged in as u, between calls, local    *)
(* storage holds a session marker that names u.                            *)
C35_MarkerNamesUser ==
    \A u \in Users :
        LoggedInAs(u) => /\ "user_session" \in DOMAIN ls
                         /\ ls["user_session"].username = u

(* C36: the profile that a successful register has made has the default    *)
(* settings, and defaultProfile keeps them.                                *)
C36_DefaultSettings ==
    /\ (last.op = "register" /\ last.res = "ok")
           => currentUser[1].settings = defaultSettings
    /\ template = defaultSettings

(* No backend holds a profile envelope of u                                *)
NoEnvelope(S, u) == \A st \in {S.ls, S.ss, S.ck} : profileKey(u) \notin DOMAIN st

(* C37: a removeUserAccount(u, p) that succeeds leaves no profile envelope *)
(* of u in any backend, one that fails leaves the three backends as they   *)
(* were, and the call that follows a successful one, unless it is a        *)
(* register, an import or a login that completes an import for u, stores   *)
(* no envelope of u.                                                       *)
C37_RemovedStaysRemoved ==
    [][ /\ (last'.op = "removeUserAccount" /\ last'.res = "ok")
              => NoEnvelope([ls |-> ls', ss |-> ss', ck |-> ck'], last'.u)
        /\ (last'.op = "removeUserAccount" /\ last'.res # "ok")
              => UNCHANGED <<ls, ss, ck>>
        /\ ( /\ last.op = "removeUserAccount" /\ last.res = "ok"
             /\ NoEnvelope(Store, last.u)
             /\ ~(last'.op \in {"register", "import", "login"} /\ last'.u = last.u) )
              => NoEnvelope([ls |-> ls', ss |-> ss', ck |-> ck'], last.u) ]_vars

(***************************************************************************)
(* Session timeout: the interval set up by init calls checkSessionTimeout  *)
(* every minute; updateActivity runs on mouse, key, scroll and touch       *)
(* events.                                                                 *)
(***************************************************************************)
MaxTimeoutCalls == 4

(* SESSION_TIMEOUT, one year, in the minutes of now                        *)
SESSION_TIMEOUT == 365 * 24 * 60

(* checkSessionTimeout(): what the call gives.  The controller has no      *)
(* method logout (its logout is logoutUser), so this.logout() raises a     *)
(* TypeError before anything is changed or returned.                       *)
checkSessionTimeout ==
    IF ~isLoggedIn THEN "false"
    ELSE IF now - lastActivityTime > SESSION_TIMEOUT THEN "TypeError"
    ELSE "false"

CheckSessionTimeoutReturns(r) ==
    /\ last' = [NoCall EXCEPT !.op = "checkSessionTimeout", !.res = r,
                   !.u = IF isLoggedIn THEN currentUser[1].username ELSE ""]
    /\ UNCHANGED <<ls, ss, ck, cookiesEnabled, now, lastActivityTime,
                   currentUser, isLoggedIn, syncEnabled, syncTimer, timers,
                   deviceKey, template, shared, streak, authed, pc, mig,
                   crypto>>

CheckSessionTimeout == CheckSessionTimeoutReturns(checkSessionTimeout)

(* updateActivity()                                                        *)
UpdateActivity ==
    /\ lastActivityTime' = now
    /\ last' = [NoCall EXCEPT !.op = "updateActivity"]
    /\ UNCHANGED <<ls, ss, ck, cookiesEnabled, now, currentUser, isLoggedIn,
                   syncEnabled, syncTimer, timers, deviceKey, template,
                   shared, streak, authed, pc, mig, crypto>>

(* The page stays open, without a user event, for more than SESSION_TIMEOUT *)
Away ==
    /\ now' = now + SESSION_TIMEOUT + TickMinutes
    /\ last' = [NoCall EXCEPT !.op = "away"]
    /\ UNCHANGED <<ls, ss, ck, cookiesEnabled, lastActivityTime, currentUser,
                   isLoggedIn, syncEnabled, syncTimer, timers, deviceKey,
                   template, shared, streak, authed, pc, mig, crypto>>

NextTimeout ==
    /\ calls < MaxTimeoutCalls
    /\ calls' = calls + 1
    /\ \/ \E draw \in Draws : Register("alice", "Password123", EmailA, "", FALSE, draw)
       \/ \E p \in Passwords, draw \in Draws : Login("alice", p, draw)
       \/ \E fullLogout \in BOOLEAN : Logout(fullLogout)
       \/ UpdateActivity
       \/ Away
       \/ CheckSessionTimeout

SpecTimeout == InitSession /\ [][NextTimeout]_vars

(* C38: a checkSessionTimeout call made while the controller is logged in  *)
(* and the last recorded activity is more than SESSION_TIMEOUT ago leaves  *)
(* the controller logged out with no current user and no periodic sync,    *)
(* and returns true; any other call returns false and changes nothing.     *)
C38_TimeoutLogsOut ==
    [][ last'.op = "checkSessionTimeout"
        => IF isLoggedIn /\ now - lastActivityTime > SESSION_TIMEOUT
           THEN /\ ~isLoggedIn'
                /\ currentUser' = <<>>
                /\ ~syncTimer'
                /\ last'.res = "true"
           ELSE /\ last'.res = "false"
                /\ UNCHANGED <<ls, ss, ck, currentUser, isLoggedIn,
                               syncEnabled, syncTimer, timers,
                               lastActivityTime>> ]_vars

(* C39: between calls of login, register, auto-login and logout the        *)
(* controller is logged in exactly when it holds a current user.           *)
C39_LoggedInIffUser == isLoggedIn <=> currentUser # <<>>

(* An auto-login after a register put the user in place                   *)
C39_Witness ==
    /\ last.op = "startup" /\ last.res = "true"
    /\ isLoggedIn /\ currentUser # <<>>

(* C40: between calls at most one periodic sync interval is live, and      *)
(* while the controller is logged out none is live and the controller      *)
(* holds none.                                                             *)
C40_OneTimer ==
    /\ timers <= 1
    /\ ~isLoggedIn => (timers = 0 /\ ~syncTimer)

(* Periodic sync was started again while an interval was running: by a     *)
(* toggleSync(true), or by a login of a user with autoSync                 *)
C40_Witness ==
    /\ last.timer0 /\ last.res = "ok"
    /\ \/ last.op = "toggleSync" /\ last.force
       \/ last.op = "login" /\ syncEnabled
    /\ syncTimer /\ timers = 1

====
